---------------------------- MODULE Spec2Model ----------------------------
(***************************************************************************)
(* Technolab Data Center dashboard (src/app.py).                           *)
(*                                                                         *)
(* Text is modelled as a sequence of one-character strings, so that        *)
(* stripping, prefix removal, lower-casing and key formatting are computed *)
(* character by character as pandas / Python compute them.                 *)
(***************************************************************************)
EXTENDS Integers, Sequences, FiniteSets, TLC

VARIABLES
    raw,            \* element of the Series handed to _norm_bim_series
    out,            \* _norm_bim_series(raw)
    out2,           \* _norm_bim_series(out)
    npc,            \* position of the normalizer run
    clientes,       \* table clientes: sequence of rows
    biorreactores,  \* table biorreactores: sequence of rows
    registros,      \* table registros: sequence of rows
    diagnosticos,   \* table diagnosticos: sequence of rows
    fechas_BIMs,    \* table fechas_BIMs: sequence of rows
    kpis,           \* outcome of get_kpis()
    errors,         \* queries of get_kpis() for which q() called st.error
    catalog,        \* cached result of get_biorreactores()
    home,           \* outcome of view_home(): widgets created, or the exception
    session_state,  \* st.session_state: page, selected_bim
    query_params,   \* st.query_params: page, bim
    df_points,      \* argument of build_route_nearest_neighbor
    route_rows,     \* its list route_rows; the returned frame at the end
    remaining,      \* its frame remaining
    rpc,            \* position of the route builder
    mapdf,          \* cached result of get_map_df()
    map,            \* outcome of view_map(): messages, layers, route
    calls,          \* requests of the last script run, in order: SQL, API
    detail,         \* outcome of view_detail(): the device, range and tabs
    dcache,         \* cached results of get_registros / get_diagnosticos /
                    \* get_eventos for the arguments asked last
    mongo,          \* app_bim_dashboard: the Mongo settings and documents
    bim_page,       \* app_bim_dashboard: outcome of one run of the page
    overview,       \* app_bim_dashboard, tab T1: the last reading and the
                    \* alerts compute_alerts returned for it
    series,         \* app_bim_dashboard, tab T2: the rows the query of
                    \* load_timeseries returned and the frame it made of them
    other,          \* the second user session, whose script is not running:
                    \* its number, st.session_state and st.query_params
    clock           \* the time, the times at which the entries of the caches
                    \* of get_biorreactores / get_map_df were stored and read
                    \* from the store, and the age of the value served last

vars == <<raw, out, out2, npc, clientes, biorreactores, registros,
          diagnosticos, fechas_BIMs, kpis, errors, catalog, home,
          session_state, query_params, df_points, route_rows, remaining, rpc,
          mapdf, map, calls, detail, dcache, mongo, bim_page,
          overview, series, other, clock>>

normVars == <<raw, out, out2, npc>>
dbVars   == <<clientes, biorreactores, registros, diagnosticos, fechas_BIMs>>
kpiVars  == <<kpis, errors>>
catVars  == <<catalog, home>>
navVars  == <<session_state, query_params>>
routeVars == <<df_points, route_rows, remaining, rpc>>
appVars  == <<normVars, dbVars, kpiVars, catVars, navVars>>
mapVars  == <<mapdf, map>>
detVars  == <<detail, dcache>>
bimVars  == <<mongo, bim_page, overview, series>>
restVars == <<routeVars, mapVars, calls, detVars, bimVars, other, clock>>

-----------------------------------------------------------------------------
(* Bounds of the model.                                                    *)

MaxLen      == 4    \* longest text enumerated over Alphabet
MaxNum      == 12   \* largest numeric identifier
MaxClientes == 2    \* rows of clientes
MaxBio      == 4    \* rows of biorreactores in the KPI runs
MaxCatRows  == 3    \* rows of biorreactores in the catalog runs
MaxLog      == 1    \* rows of each of registros, diagnosticos, fechas_BIMs

-----------------------------------------------------------------------------
(* Values.                                                                 *)

\* SQL NULL / Python None / pandas <NA>
NULL == [kind |-> "null", s |-> <<>>, n |-> 0]
Text(s) == [kind |-> "text", s |-> s, n |-> 0]
Num(n)  == [kind |-> "num", s |-> <<>>, n |-> n]

E == <<>>   \* the empty string

UpperAZ == <<"A","B","C","D","E","F","G","H","I","J","K","L","M",
             "N","O","P","Q","R","S","T","U","V","W","X","Y","Z">>
LowerAZ == <<"a","b","c","d","e","f","g","h","i","j","k","l","m",
             "n","o","p","q","r","s","t","u","v","w","x","y","z">>
Digits  == <<"0","1","2","3","4","5","6","7","8","9">>

\* str.strip() and the regex class \s
IsSpace(c) == c \in {" ", "\t", "\n"}

\* str(n) for a non-negative integer
RECURSIVE IntToStr(_)
IntToStr(n) ==
    IF n < 10 THEN <<Digits[n + 1]>>
    ELSE IntToStr(n \div 10) \o <<Digits[(n % 10) + 1]>>

-----------------------------------------------------------------------------
(* _norm_bim_series, element-wise.                                         *)

\* s.astype("string").fillna("")
AsString(v) ==
    CASE v.kind = "null" -> E
      [] v.kind = "num"  -> IntToStr(v.n)
      [] OTHER           -> v.s

RECURSIVE LStrip(_)
LStrip(s) == IF s # E /\ IsSpace(Head(s)) THEN LStrip(Tail(s)) ELSE s

RECURSIVE RStrip(_)
RStrip(s) ==
    IF s # E /\ IsSpace(s[Len(s)]) THEN RStrip(SubSeq(s, 1, Len(s) - 1)) ELSE s

\* .str.strip()
Strip(s) == RStrip(LStrip(s))

\* .str.replace(r"^\s*bim\s*", "", regex=True): the pattern is matched as
\* written, i.e. case-sensitively; without a match the text is unchanged.
ReplaceBimPrefix(s) ==
    LET t == LStrip(s) IN
    IF Len(t) >= 3 /\ t[1] = "b" /\ t[2] = "i" /\ t[3] = "m"
    THEN LStrip(SubSeq(t, 4, Len(t)))
    ELSE s

LowerChar(c) ==
    IF \E i \in 1..26 : UpperAZ[i] = c
    THEN LowerAZ[CHOOSE i \in 1..26 : UpperAZ[i] = c]
    ELSE c

\* .str.lower()
Lower(s) == [i \in 1..Len(s) |-> LowerChar(s[i])]

NullTokens == { <<"n","o","n","e">>, <<"n","u","l","l">>,
                <<"n","i","n","g","u","n","o">> }

\* .replace({"none":"", "null":"", "ninguno":""}): whole-value replacement
ReplaceNullTokens(s) == IF s \in NullTokens THEN E ELSE s

norm_bim(v) == ReplaceNullTokens(Lower(ReplaceBimPrefix(Strip(AsString(v)))))

-----------------------------------------------------------------------------
(* Inputs of the normalizer runs.                                          *)

Alphabet == {"b", "i", "m", "B", " ", "1"}

RECURSIVE SeqsUpTo(_, _)
SeqsUpTo(S, n) ==
    IF n = 0 THEN {E}
    ELSE LET P == SeqsUpTo(S, n - 1) IN
         P \cup {Append(p, c) : p \in {q \in P : Len(q) = n - 1}, c \in S}

Pads     == {E, <<" ">>}
Prefixes == {E, <<"b","i","m">>, <<"B","I","M">>, <<"B","i","m">>}
Bodies   == { <<"0","0","7">>, <<"1","2">>, <<"n","o","n","e">>,
              <<"N","o","n","e">>, <<"N","U","L","L">>,
              <<"n","i","n","g","u","n","o">>, <<"b","i","m","1">>,
              <<"A","b">> }

Composed == {a \o p \o b \o t \o c :
                a \in Pads, p \in Prefixes, b \in Pads, t \in Bodies, c \in Pads}

RawValues ==
    {NULL} \cup {Num(n) : n \in 0..MaxNum}
           \cup {Text(s) : s \in SeqsUpTo(Alphabet, MaxLen) \cup Composed}


-----------------------------------------------------------------------------
(* Parts of the state a specification leaves idle.                         *)

\* get_kpis() not called yet
NoKpis == [status |-> "idle", total_clientes |-> 0, total_bims |-> 0,
           total_diag |-> 0, total_regs |-> 0, total_eventos |-> 0,
           sum_clientes |-> 0, distinct_bims |-> 0]

\* get_biorreactores() not called yet
NoCatalog == [status |-> "idle", columns |-> FALSE, rows |-> <<>>, error |-> FALSE]

\* view_home() not run yet
NoHome == [status |-> "idle", keys |-> <<>>, warning |-> FALSE, errors |-> {}]

NormIdle == raw = NULL /\ out = E /\ out2 = E /\ npc = "idle"
DbIdle   == /\ clientes = <<>> /\ biorreactores = <<>> /\ registros = <<>>
            /\ diagnosticos = <<>> /\ fechas_BIMs = <<>>
KpiIdle  == kpis = NoKpis /\ errors = {}
CatIdle  == catalog = NoCatalog /\ home = NoHome
RouteIdle == /\ df_points = <<>> /\ route_rows = <<>> /\ remaining = <<>>
             /\ rpc = "idle"
\* get_map_df() not called yet
NoMapDf == [status |-> "idle", rows |-> <<>>]

\* (None, None, None)
NoneRoute == [none |-> TRUE, distancia_km |-> 0, duracion_h |-> 0,
              geometria |-> <<>>]

\* view_map() not run yet
NoMap == [status |-> "idle", info |-> "", errors |-> {}, layers |-> <<>>,
          metrics |-> FALSE, route |-> <<>>, triple |-> NoneRoute]

MapIdle == mapdf = NoMapDf /\ map = NoMap
\* view_detail() not run yet
NoDetail == [status |-> "idle", bim |-> NULL, d1 |-> 0, d2 |-> 0,
             registros |-> <<>>, diagnosticos |-> <<>>, eventos |-> <<>>,
             errors |-> {}]

\* no entry in the caches of the three loaders of view_detail()
NoDcache == [status |-> "idle", bim |-> NULL, d1 |-> 0, d2 |-> 0,
             registros |-> <<>>, diagnosticos |-> <<>>, eventos |-> <<>>,
             errors |-> {}]

DetIdle  == detail = NoDetail /\ dcache = NoDcache
\* app_bim_dashboard: no [mongo] section, no MONGO_URI, an empty collection
NoMongo == [section |-> FALSE, secret_uri |-> NULL, env_uri |-> NULL,
            docs |-> <<>>]

\* app_bim_dashboard not run yet
NoBimPage == [status |-> "idle", bim_id |-> 0, tabs |-> FALSE, t4 |-> "",
              read |-> "none", items |-> <<>>, clients |-> 0, rest |-> FALSE]

\* compute_alerts not called yet
NoOverview == [status |-> "idle",
               row |-> [ph |-> NULL, temperatura_c |-> NULL,
                        oxigeno_mg_l |-> NULL, lux |-> NULL,
                        turbidez_porcentaje |-> NULL],
               alerts |-> <<>>]

\* load_timeseries not called yet
NoSeries == [status |-> "idle", n |-> 0, rows |-> <<>>]

BimIdle  == /\ mongo = NoMongo /\ bim_page = NoBimPage
            /\ overview = NoOverview /\ series = NoSeries
\* no second session
NoOther == [id |-> 0, session_state |-> [page |-> "home", selected_bim |-> NULL],
            query_params |-> [page |-> NULL, bim |-> NULL]]

\* time 0, nothing stored, nothing served
NoClock == [now |-> 0, catalog_at |-> 0, catalog_read |-> 0, mapdf_at |-> 0,
            mapdf_read |-> 0, served_by |-> "", served_age |-> 0,
            served_error |-> FALSE]

RestIdle == /\ RouteIdle /\ MapIdle /\ calls = <<>> /\ DetIdle /\ BimIdle
            /\ other = NoOther /\ clock = NoClock
NavHome  == /\ session_state = [page |-> "home", selected_bim |-> NULL]
            /\ query_params = [page |-> NULL, bim |-> NULL]

-----------------------------------------------------------------------------
(* Normalizer runs: one element is normalized, then the result is          *)
(* normalized again.                                                       *)

InitNorm ==
    /\ raw \in RawValues
    /\ out = E /\ out2 = E /\ npc = "start"
    /\ DbIdle /\ KpiIdle /\ CatIdle /\ NavHome /\ RestIdle

Normalize ==
    /\ npc = "start"
    /\ out' = norm_bim(raw)
    /\ npc' = "normalized"
    /\ UNCHANGED <<raw, out2, dbVars, kpiVars, catVars, navVars, restVars>>

Renormalize ==
    /\ npc = "normalized"
    /\ out2' = norm_bim(Text(out))
    /\ npc' = "renormalized"
    /\ UNCHANGED <<raw, out, dbVars, kpiVars, catVars, navVars, restVars>>

NextNorm == Normalize \/ Renormalize

SpecNorm == InitNorm /\ [][NextNorm]_vars

-----------------------------------------------------------------------------
(* The normalizer as the specification describes it: the "bim" prefix is   *)
(* matched case-insensitively.                                             *)

RefRemovePrefix(s) ==
    IF Len(s) >= 3 /\ Lower(SubSeq(s, 1, 3)) = <<"b","i","m">>
    THEN LStrip(SubSeq(s, 4, Len(s)))
    ELSE s

RefNormalize(v) == ReplaceNullTokens(Lower(RefRemovePrefix(Strip(AsString(v)))))

BeginsWithBim(s) == Len(s) >= 3 /\ SubSeq(s, 1, 3) = <<"b","i","m">>

\* C1: the normalizer is idempotent: normalizing a normalized value
\* returns it unchanged, normalize(normalize(x)) = normalize(x).
C1_Idempotent == npc = "renormalized" => out2 = out

\* C2: for every input the normalizer's result equals the reference
\* algorithm (coerce, strip, remove one case-insensitive "bim" prefix with
\* the whitespace after it, lower-case); "BIM 007" gives "007" and
\* "  Bim12 " gives "12".
C2_EqualsReference == npc # "start" => out = RefNormalize(raw)

\* C3: every value the normalizer produces is lower-cased, has no leading
\* or trailing whitespace and does not begin with the literal token "bim".
C3_OutputShape ==
    npc # "start" =>
        /\ out = Lower(out)
        /\ out = Strip(out)
        /\ ~BeginsWithBim(out)

\* C4: the normalizer is total: a null input gives the empty string, and an
\* input whose stripped, prefix-removed, lower-cased form is exactly "none",
\* "null" or "ninguno" (in any letter case) gives the empty string.
C4_NullTokensToEmpty ==
    npc # "start" =>
        /\ raw = NULL => out = E
        /\ Lower(RefRemovePrefix(Strip(AsString(raw)))) \in NullTokens => out = E

-----------------------------------------------------------------------------
(* The store.  A table is a sequence of rows; only the columns the         *)
(* queries read are kept.                                                  *)

RECURSIVE SumSeq(_)
SumSeq(s) == IF s = <<>> THEN 0 ELSE Head(s) + SumSeq(Tail(s))

\* SELECT COUNT(*) AS c FROM t : always one row
SqlCount(t) == << [c |-> Len(t)] >>

\* SELECT SUM(COALESCE(BIMs_instalados,0)) AS s FROM clientes : always one
\* row; SUM over no rows is NULL.
SqlSumInstalled(t) ==
    IF t = <<>> THEN << [s |-> NULL] >>
    ELSE << [s |-> Num(SumSeq([i \in 1..Len(t) |->
                 IF t[i].BIMs_instalados = NULL THEN 0
                 ELSE t[i].BIMs_instalados.n]))] >>

IsNotNullBim(r) == r.numero_bim # NULL

\* SELECT numero_bim FROM biorreactores WHERE numero_bim IS NOT NULL
SqlBioNotNull(t) ==
    LET kept == SelectSeq(t, IsNotNullBim) IN
    [i \in 1..Len(kept) |-> [numero_bim |-> kept[i].numero_bim]]

-----------------------------------------------------------------------------
(* q() and get_kpis().                                                     *)

Queries == {"count_clientes", "sum_clientes", "bio",
            "count_diag", "count_regs", "count_eventos"}

\* q(): the rows read, or an empty DataFrame when pd.read_sql raises
q(failed, name, rows) == IF name \in failed THEN <<>> ELSE rows

\* int(df["c"].iloc[0]) if not df.empty else 0
CountOf(df) == IF df # <<>> THEN df[1].c ELSE 0

\* df_bio["numero_bim"].drop_duplicates().shape[0] if not df_bio.empty else 0
DistinctBims(df) ==
    IF df # <<>> THEN Cardinality({df[i].numero_bim : i \in 1..Len(df)}) ELSE 0

\* max(sum_clientes, distinct_bims)
PyMax_FirstOnly(a, b) == a
PyMax(a, b) == IF a >= b THEN a ELSE b

\* The outcome of one call of get_kpis() in which the queries of `failed`
\* raise inside q(): the five counts (with the two device estimates), or
\* the exception of int(None), and the queries that reported an error.
get_kpis(failed) ==
    LET c              == q(failed, "count_clientes", SqlCount(clientes))
        total_clientes == CountOf(c)
        sum_cli_df     == q(failed, "sum_clientes", SqlSumInstalled(clientes))
        sum_raises     == sum_cli_df # <<>> /\ sum_cli_df[1].s = NULL
        sum_clientes   == IF sum_cli_df # <<>> THEN sum_cli_df[1].s.n ELSE 0
        df_bio         == q(failed, "bio", SqlBioNotNull(biorreactores))
        distinct_bims  == DistinctBims(df_bio)
        total_bims     == PyMax(sum_clientes, distinct_bims)
        d              == q(failed, "count_diag", SqlCount(diagnosticos))
        r              == q(failed, "count_regs", SqlCount(registros))
        e              == q(failed, "count_eventos", SqlCount(fechas_BIMs))
    IN  IF sum_raises
        THEN [result |-> [NoKpis EXCEPT !.status = "raised",
                                        !.total_clientes = total_clientes],
              errors |-> failed \cap {"count_clientes", "sum_clientes"}]
        ELSE [result |-> [status |-> "returned",
                          total_clientes |-> total_clientes,
                          total_bims |-> total_bims,
                          total_diag |-> CountOf(d),
                          total_regs |-> CountOf(r),
                          total_eventos |-> CountOf(e),
                          sum_clientes |-> sum_clientes,
                          distinct_bims |-> distinct_bims],
              errors |-> failed]

-----------------------------------------------------------------------------
(* KPI runs.  No query of get_kpis depends on the order of the rows, so    *)
(* one table is drawn for every multiset of rows.                          *)

InstaladosVals == <<NULL, Num(0), Num(2), Num(3)>>
BimVals        == <<NULL, Text(<<"1">>), Text(<<"b","i","m","1">>),
                    Text(<<"2">>), Text(<<"3">>)>>
RegBimVals     == <<Text(<<"b","i","m","1">>), Text(<<"4">>)>>
EventoBimVals  == <<Text(<<" ","4">>), Text(<<"5">>)>>

\* nondecreasing index sequences of length <= n over 1..k
SortedIdx(k, n) ==
    {s \in SeqsUpTo(1..k, n) : \A i \in 1..(Len(s) - 1) : s[i] <= s[i + 1]}

ClientesTables(n) ==
    {[i \in 1..Len(s) |-> [BIMs_instalados |-> InstaladosVals[s[i]]]] :
        s \in SortedIdx(Len(InstaladosVals), n)}

BioTables(n) ==
    {[i \in 1..Len(s) |-> [cliente |-> NULL, numero_bim |-> BimVals[s[i]],
                           latitud |-> NULL, longitud |-> NULL]] :
        s \in SortedIdx(Len(BimVals), n)}

RegistrosTables(n) ==
    {[i \in 1..Len(s) |-> [BIM |-> RegBimVals[s[i]]]] :
        s \in SortedIdx(Len(RegBimVals), n)}

EventosTables(n) ==
    {[i \in 1..Len(s) |-> [numero_bim |-> EventoBimVals[s[i]]]] :
        s \in SortedIdx(Len(EventoBimVals), n)}

DiagTables(n) == {[i \in 1..k |-> [usuario_id |-> Num(i)]] : k \in 0..n}

\* Either the device tables vary and every log holds MaxLog rows, or the
\* logs vary and the device tables hold at most one row.
InitKpi ==
    /\ \/ /\ clientes \in ClientesTables(MaxClientes)
          /\ biorreactores \in BioTables(MaxBio)
          /\ registros = [i \in 1..MaxLog |-> [BIM |-> RegBimVals[1]]]
          /\ fechas_BIMs = [i \in 1..MaxLog |-> [numero_bim |-> EventoBimVals[1]]]
          /\ diagnosticos = [i \in 1..MaxLog |-> [usuario_id |-> Num(i)]]
       \/ /\ clientes \in ClientesTables(1)
          /\ biorreactores \in BioTables(1)
          /\ registros \in RegistrosTables(MaxLog)
          /\ fechas_BIMs \in EventosTables(MaxLog)
          /\ diagnosticos \in DiagTables(MaxLog)
    /\ KpiIdle /\ CatIdle /\ NormIdle /\ NavHome /\ RestIdle

GetKpis ==
    /\ kpis.status = "idle"
    /\ \E failed \in SUBSET Queries :
          LET r == get_kpis(failed) IN
          /\ kpis' = r.result
          /\ errors' = r.errors
    /\ UNCHANGED <<normVars, dbVars, catVars, navVars, restVars>>

NextKpi == GetKpis

SpecKpi == InitKpi /\ [][NextKpi]_vars

-----------------------------------------------------------------------------
(* Claims about get_kpis, stated on the contents of the store.             *)

\* the clients' self-reported installed counts, null counted as zero
InstalledSum ==
    SumSeq([i \in 1..Len(clientes) |->
               IF clientes[i].BIMs_instalados.kind = "num"
               THEN clientes[i].BIMs_instalados.n ELSE 0])

\* the distinct device identifiers of the attribute table
AttributeIds ==
    {biorreactores[i].numero_bim : i \in 1..Len(biorreactores)} \ {NULL}

\* the distinct normalized, non-empty identifiers of the attribute table,
\* the activity log and the event log together
UnionIds ==
    {norm_bim(v) : v \in
        {biorreactores[i].numero_bim : i \in 1..Len(biorreactores)}
        \cup {registros[i].BIM : i \in 1..Len(registros)}
        \cup {fechas_BIMs[i].numero_bim : i \in 1..Len(fechas_BIMs)}} \ {E}

Larger(a, b) == IF a < b THEN b ELSE a

C5_WitnessIds ==
    /\ kpis.status = "returned" /\ errors = {}
    /\ InstalledSum < Cardinality(AttributeIds)
    /\ kpis.total_bims = Cardinality(AttributeIds)

\* C6: the second device-count estimate of get_kpis is the number of
\* distinct normalized identifiers in the union of biorreactores, registros
\* and fechas_BIMs: a device seen only in a log is counted, and raw
\* identifiers with the same normalized key are counted once.
C6_SecondEstimateIsUnion ==
    (kpis.status = "returned" /\ errors = {}) =>
        kpis.distinct_bims = Cardinality(UnionIds)

\* C7: for every contents of clientes, the empty table and all-null counts
\* included, get_kpis completes without raising and its first estimate is
\* the sum of the installed counts with null as zero (0 for no clients).
C7_SumTotalOnEveryTable ==
    (kpis.status # "idle" /\ "sum_clientes" \notin errors) =>
        /\ kpis.status = "returned"
        /\ kpis.sum_clientes = InstalledSum

\* C8: failures are isolated per metric: whatever queries fail, get_kpis
\* returns all five counts without raising, a metric whose query failed is
\* 0 (for the device count, the estimate whose query failed is 0) and every
\* other metric has its true value.
C8_FailuresIsolated ==
    kpis.status # "idle" =>
        /\ kpis.status = "returned"
        /\ kpis.total_clientes =
              (IF "count_clientes" \in errors THEN 0 ELSE Len(clientes))
        /\ kpis.total_bims =
              Larger(IF "sum_clientes" \in errors THEN 0 ELSE InstalledSum,
                     IF "bio" \in errors THEN 0 ELSE Cardinality(AttributeIds))
        /\ kpis.total_diag =
              (IF "count_diag" \in errors THEN 0 ELSE Len(diagnosticos))
        /\ kpis.total_regs =
              (IF "count_regs" \in errors THEN 0 ELSE Len(registros))
        /\ kpis.total_eventos =
              (IF "count_eventos" \in errors THEN 0 ELSE Len(fechas_BIMs))

\* The same, over the runs in which the clients table is not empty.
C8_IsolatedWhenClientsExist ==
    (kpis.status # "idle" /\ clientes # <<>>) => C8_FailuresIsolated

-----------------------------------------------------------------------------
(* Orderings of text.                                                      *)

\* code-point order of the characters used (Python str comparison)
CodePoints == <<"\t", "\n", " "
               >> \o Digits \o UpperAZ \o <<"_">> \o LowerAZ

\* order of collation utf8mb4_unicode_ci (set for the connection in
\* build_engine): letters compare without case, digits before letters
CollationChars == <<"\t", "\n", " ", "_">> \o Digits \o LowerAZ

IndexIn(order, c) == CHOOSE i \in 1..Len(order) : order[i] = c

RECURSIVE SeqLess(_, _)
SeqLess(a, b) ==
    IF b = <<>> THEN FALSE
    ELSE IF a = <<>> THEN TRUE
    ELSE IF Head(a) < Head(b) THEN TRUE
    ELSE IF Head(a) > Head(b) THEN FALSE
    ELSE SeqLess(Tail(a), Tail(b))

PyKey(s) == [i \in 1..Len(s) |-> IndexIn(CodePoints, s[i])]

\* Python: a < b on str
PyLess(a, b) == SeqLess(PyKey(a), PyKey(b))

RECURSIVE RTrimSpaces(_)
RTrimSpaces(s) ==
    IF s # E /\ s[Len(s)] = " " THEN RTrimSpaces(SubSeq(s, 1, Len(s) - 1)) ELSE s

RECURSIVE LTrimSpaces(_)
LTrimSpaces(s) == IF s # E /\ Head(s) = " " THEN LTrimSpaces(Tail(s)) ELSE s

\* the collation is PAD SPACE: trailing spaces do not count
CollKey(s) ==
    LET u == RTrimSpaces(s) IN
    [i \in 1..Len(u) |-> IndexIn(CollationChars, LowerChar(u[i]))]

\* ORDER BY on one nullable text column, ascending: NULL first
SqlLess(a, b) ==
    IF a = NULL THEN b # NULL
    ELSE IF b = NULL THEN FALSE
    ELSE SeqLess(CollKey(a.s), CollKey(b.s))

-----------------------------------------------------------------------------
(* get_biorreactores().                                                    *)

\* TRIM(CAST(numero_bim AS CHAR CHARACTER SET utf8mb4)): MySQL TRIM removes
\* leading and trailing spaces; NULL stays NULL.
SqlTrimCast(v) ==
    CASE v.kind = "null" -> NULL
      [] v.kind = "num"  -> Text(IntToStr(v.n))
      [] OTHER           -> Text(RTrimSpaces(LTrimSpaces(v.s)))

\* the SELECT list of get_biorreactores for one row; id is the row's
\* position in the table
SelectBioRow(t, i) ==
    [id |-> i, cliente |-> t[i].cliente,
     numero_bim |-> SqlTrimCast(t[i].numero_bim),
     latitud |-> t[i].latitud, longitud |-> t[i].longitud]

\* ORDER BY cliente, numero_bim
BioRowBefore(x, y) ==
    \/ SqlLess(x.cliente, y.cliente)
    \/ /\ ~SqlLess(y.cliente, x.cliente)
       /\ SqlLess(x.numero_bim, y.numero_bim)

Perms(n) == {p \in [1..n -> 1..n] : \A i, j \in 1..n : i # j => p[i] # p[j]}

\* The result sets the SELECT of get_biorreactores may return: every row of
\* the table once, ordered by (cliente, numero_bim); rows with equal keys
\* come in an order the server chooses.
SqlSelectBio(t) ==
    LET n == Len(t)
        rows(p) == [i \in 1..n |-> SelectBioRow(t, p[i])]
    IN  {rows(p) : p \in {pp \in Perms(n) :
            \A i \in 1..(n - 1) : ~BioRowBefore(rows(pp)[i + 1], rows(pp)[i])}}

\* a DataFrame: its rows, and whether it has columns at all (the empty
\* pd.DataFrame() that q() returns on failure has none)
EmptyDataFrame == [status |-> "returned", columns |-> FALSE, rows |-> <<>>,
                   error |-> TRUE]
DataFrameOf(rows) == [status |-> "returned", columns |-> TRUE, rows |-> rows,
                      error |-> FALSE]

\* The values get_biorreactores() may return: the catalog.
get_biorreactores(fails) ==
    IF fails THEN {EmptyDataFrame}
    ELSE {DataFrameOf(rows) : rows \in SqlSelectBio(biorreactores)}

-----------------------------------------------------------------------------
(* Navigation.                                                             *)

\* str(x) of a cell: None prints as "None"
PyStr(v) ==
    CASE v.kind = "null" -> <<"N","o","n","e">>
      [] v.kind = "num"  -> IntToStr(v.n)
      [] OTHER           -> v.s

go_home(nav) ==
    [session_state |-> [page |-> "home", selected_bim |-> NULL],
     query_params  |-> [page |-> Text(<<"h","o","m","e">>), bim |-> NULL]]

go_detail(nav, bim) ==
    [session_state |-> [page |-> "detail", selected_bim |-> Text(bim)],
     query_params  |-> [page |-> Text(<<"d","e","t","a","i","l">>),
                        bim |-> Text(bim)]]

go_map_KeepBim(nav) ==
    [session_state |-> [nav.session_state EXCEPT !.page = "map"],
     query_params  |-> [nav.query_params EXCEPT !.page = Text(<<"m","a","p">>)]]
go_map(nav) ==
    [session_state |-> [nav.session_state EXCEPT !.page = "map"],
     query_params  |-> [page |-> Text(<<"m","a","p">>), bim |-> NULL]]

-----------------------------------------------------------------------------
(* view_home().                                                            *)

Todos == <<"T","o","d","o","s">>

\* bio_df["cliente"].fillna("").str.strip()
ClienteKey(r) == IF r.cliente = NULL THEN E ELSE Strip(r.cliente.s)

\* the options of the "Cliente" selectbox
ClienteOpts(rows) ==
    {Todos} \cup ({ClienteKey(rows[i]) : i \in 1..Len(rows)} \ {E})

RECURSIVE SortedGroups(_)
\* the group keys in the order groupby visits them (sorted)
SortedGroups(S) ==
    IF S = {} THEN <<>>
    ELSE LET m == CHOOSE x \in S : \A y \in S \ {x} : ~PyLess(y, x)
         IN  <<m>> \o SortedGroups(S \ {m})

RECURSIVE ConcatAll(_)
ConcatAll(ss) == IF ss = <<>> THEN <<>> ELSE Head(ss) \o ConcatAll(Tail(ss))

\* the rows in the order view_home creates their buttons: group by group,
\* inside a group in catalog order
ButtonRows(rows) ==
    LET groups == SortedGroups({ClienteKey(rows[i]) : i \in 1..Len(rows)})
        InGroup(k) == LET Is(r) == ClienteKey(r) = groups[k]
                      IN  SelectSeq(rows, Is)
    IN  ConcatAll([k \in 1..Len(groups) |-> InGroup(k)])

\* f"btn_bim_{cliente or 'sin_cliente'}_{r['numero_bim']}"
ButtonKey(r) ==
    <<"b","t","n","_","b","i","m","_">>
    \o (IF ClienteKey(r) = E
        THEN <<"s","i","n","_","c","l","i","e","n","t","e">>
        ELSE ClienteKey(r))
    \o <<"_">> \o PyStr(r.numero_bim)

\* position of the first button whose key was already used in this run
\* (st.button raises there), 0 when all keys differ
FirstDuplicate(keys) ==
    LET dups == {i \in 1..Len(keys) : \E j \in 1..(i - 1) : keys[j] = keys[i]}
    IN  IF dups = {} THEN 0 ELSE CHOOSE i \in dups : \A j \in dups : i <= j

\* the widget event of a run: none, the open-map button, or the position
\* (1, 2, ...) of the device button clicked
NoEvent  == 0
MapClick == 0 - 1

\* What one call of q() or of get_driving_route_ors adds to the requests of
\* the run: pd.read_sql / requests.post is called once, whether it fails or
\* not.
Attempt_Retry(req, fails) ==
    IF fails THEN << [req |-> req, ok |-> FALSE], [req |-> req, ok |-> FALSE] >>
    ELSE << [req |-> req, ok |-> TRUE] >>
Attempt(req, fails) == << [req |-> req, ok |-> ~fails] >>

\* the queries of get_kpis() in the order it makes them
KpiOrder == <<"count_clientes", "sum_clientes", "bio",
              "count_diag", "count_regs", "count_eventos">>

\* the requests of one call of get_kpis(): all six, or the first two when
\* int(None) raises after the second
KpiCalls(failed, result) ==
    LET n == IF result.status = "raised" THEN 2 ELSE Len(KpiOrder)
    IN  ConcatAll([i \in 1..n |-> Attempt(KpiOrder[i], KpiOrder[i] \in failed)])

\* One run of view_home() on the KPI outcome kp and the catalog cat, with
\* the selectbox at sel and the widget event ev of this run; msgs are the
\* failed queries the run saw: those for which q() wrote st.error, and the
\* catalog query when the catalog is the empty frame of a failed call.
view_home(kp, cat, nav, sel, ev, msgs) ==
    IF kp.status = "raised" \/ ~cat.columns
    THEN \* get_kpis() raised, or bio_df["cliente"] raised KeyError
         [home |-> [status |-> "exception", keys |-> <<>>, warning |-> FALSE,
                    errors |-> msgs],
          nav  |-> nav]
    ELSE
    LET nav1  == IF ev = MapClick THEN go_map(nav) ELSE nav
        IsSel(r) == sel = Todos \/ ClienteKey(r) = sel
        shown == ButtonRows(SelectSeq(cat.rows, IsSel))
        keys  == [i \in 1..Len(shown) |-> ButtonKey(shown[i])]
        dup   == FirstDuplicate(keys)
        made  == IF dup = 0 THEN Len(shown) ELSE dup - 1
        nav2  == IF ev \in 1..made
                 THEN go_detail(nav1, PyStr(shown[ev].numero_bim))
                 ELSE nav1
    IN  [home |-> [status |-> IF dup = 0 THEN "rendered" ELSE "exception",
                   keys |-> SubSeq(keys, 1, made),
                   warning |-> shown = <<>>,
                   errors |-> msgs],
         nav  |-> nav2]

\* the device buttons a run of view_home can offer for a click
ButtonCount(cat, sel) ==
    LET IsSel(r) == sel = Todos \/ ClienteKey(r) = sel
        shown == ButtonRows(SelectSeq(cat.rows, IsSel))
        keys  == [i \in 1..Len(shown) |-> ButtonKey(shown[i])]
        dup   == FirstDuplicate(keys)
    IN  IF dup = 0 THEN Len(shown) ELSE dup - 1

-----------------------------------------------------------------------------
(* Catalog runs: the home page over a store whose attribute table varies.  *)

CatClienteVals == <<Text(<<"A">>), Text(<<"A"," ">>), Text(<<"B">>), NULL>>
CatBimVals     == <<Text(<<"1">>), Text(<<"2">>), Text(<<" ">>), NULL>>

CatRowVals ==
    [i \in 1..(Len(CatClienteVals) * Len(CatBimVals)) |->
        [cliente    |-> CatClienteVals[((i - 1) \div Len(CatBimVals)) + 1],
         numero_bim |-> CatBimVals[((i - 1) % Len(CatBimVals)) + 1],
         latitud    |-> NULL,
         longitud   |-> NULL]]

\* one table for every multiset of rows
CatTables(n) ==
    {[i \in 1..Len(s) |-> CatRowVals[s[i]]] : s \in SortedIdx(Len(CatRowVals), n)}

\* identifiers the activity log holds while the attribute table is empty
CatLogBimVals == <<Text(<<"B","I","M"," ","1">>), Text(<<"b","i","m","1">>),
                   Text(<<" ","1"," ">>), Text(<<"2">>)>>

CatLogTables(n) ==
    {[i \in 1..Len(s) |-> [BIM |-> CatLogBimVals[s[i]]]] :
        s \in SortedIdx(Len(CatLogBimVals), n)}

\* Either the attribute table varies, the logs are empty and the KPIs are
\* cached, or the attribute table is empty, the logs and the clients table
\* vary and nothing is cached.
InitCat ==
    /\ \/ /\ biorreactores \in CatTables(MaxCatRows)
          /\ clientes = << [BIMs_instalados |-> Num(2)] >>
          /\ registros = <<>> /\ diagnosticos = <<>> /\ fechas_BIMs = <<>>
          /\ kpis = get_kpis({}).result /\ errors = {}   \* cached less than 180 s ago
       \/ /\ biorreactores = <<>>
          /\ clientes \in {<<>>, << [BIMs_instalados |-> Num(2)] >>}
          /\ registros \in CatLogTables(MaxCatRows)
          /\ fechas_BIMs \in EventosTables(MaxLog)
          /\ diagnosticos = <<>>
          /\ KpiIdle
    /\ CatIdle /\ NormIdle /\ NavHome /\ RestIdle

\* a call of get_biorreactores() that misses the cache
GetBiorreactores_WriteBack ==
    /\ catalog.status = "idle"
    /\ \E fails \in BOOLEAN : catalog' \in get_biorreactores(fails)
    /\ biorreactores' =
          [i \in 1..Len(catalog'.rows) |->
              [cliente    |-> catalog'.rows[i].cliente,
               numero_bim |-> catalog'.rows[i].numero_bim,
               latitud    |-> catalog'.rows[i].latitud,
               longitud   |-> catalog'.rows[i].longitud]]
    /\ UNCHANGED <<normVars, clientes, registros, diagnosticos, fechas_BIMs,
                   kpiVars, home, navVars, restVars>>
GetBiorreactores ==
    /\ catalog.status = "idle"
    /\ \E fails \in BOOLEAN : catalog' \in get_biorreactores(fails)
    /\ UNCHANGED <<normVars, dbVars, kpiVars, home, navVars, restVars>>

\* the cache entry of get_biorreactores() passes its time-to-live (1 s)
ExpireCatalog ==
    /\ catalog.status = "returned"
    /\ catalog' = NoCatalog
    /\ UNCHANGED <<normVars, dbVars, kpiVars, home, navVars, restVars>>

\* One script run routed to view_home().  get_kpis() and
\* get_biorreactores() answer from the cache when they hold an entry and
\* query the store otherwise; a raised exception is not cached.
ViewHome ==
    /\ session_state.page = "home"
    /\ \E failed \in (IF kpis.status = "returned" THEN {{}} ELSE SUBSET Queries),
          fails \in (IF catalog.status = "returned" THEN {FALSE} ELSE BOOLEAN) :
        LET kpr == IF kpis.status = "returned"
                   THEN [result |-> kpis, errors |-> errors]
                   ELSE get_kpis(failed)
            cats == IF kpr.result.status = "raised" THEN {catalog}
                    ELSE IF catalog.status = "returned" THEN {catalog}
                    ELSE get_biorreactores(fails)
            msgs(cat) == (IF kpis.status = "returned" THEN {} ELSE kpr.errors)
                         \cup (IF cat.error THEN {"catalog"} ELSE {})
            reqs == (IF kpis.status = "returned" THEN <<>>
                     ELSE KpiCalls(failed, kpr.result))
                    \o (IF kpr.result.status = "raised"
                           \/ catalog.status = "returned"
                        THEN <<>> ELSE Attempt("catalog", fails))
        IN  \E cat \in cats :
            \E sel \in ClienteOpts(cat.rows) :
            \E ev \in {NoEvent, MapClick} \cup 1..ButtonCount(cat, sel) :
               LET r == view_home(kpr.result, cat,
                                  [session_state |-> session_state,
                                   query_params |-> query_params], sel, ev,
                                  msgs(cat))
               IN  /\ kpis' = kpr.result
                   /\ errors' = kpr.errors
                   /\ catalog' = cat
                   /\ home' = r.home
                   /\ session_state' = r.nav.session_state
                   /\ query_params' = r.nav.query_params
                   /\ calls' = reqs
    /\ map' = NoMap /\ detail' = NoDetail
    /\ UNCHANGED <<bimVars, other, clock, normVars, dbVars, routeVars, mapdf, dcache>>

NextCat == GetBiorreactores \/ ExpireCatalog \/ ViewHome

SpecCat == InitCat /\ [][NextCat]_vars

-----------------------------------------------------------------------------
(* Claims about the catalog.                                               *)

CatalogPair(r) == <<r.cliente, r.numero_bim>>

\* C9: every row of the catalog (the result of get_biorreactores) has a
\* non-null, non-empty device identifier and a non-null client name, for
\* every contents of the biorreactores table.
C9_CatalogRowsIdentified ==
    catalog.status = "returned" =>
        \A i \in 1..Len(catalog.rows) :
            /\ catalog.rows[i].numero_bim # NULL
            /\ catalog.rows[i].numero_bim.s # E
            /\ catalog.rows[i].cliente # NULL

\* C10: when the attribute table is not empty the catalog is its rows
\* de-duplicated by (client name, device identifier): no two catalog rows
\* share a pair, the row count is the number of distinct pairs, and the
\* home view never meets two device buttons with the same key.
C10_CatalogDeduplicated ==
    /\ (catalog.status = "returned" /\ catalog.columns /\ biorreactores # <<>>) =>
          /\ \A i, j \in 1..Len(catalog.rows) :
                i # j => CatalogPair(catalog.rows[i]) # CatalogPair(catalog.rows[j])
          /\ Len(catalog.rows) =
                Cardinality({CatalogPair(SelectBioRow(biorreactores, i)) :
                                i \in 1..Len(biorreactores)})
    /\ (home.status # "idle" /\ catalog.columns /\ kpis.status = "returned") =>
          home.status = "rendered"

\* the distinct non-empty normalized identifiers of the two logs
C11_LogIds ==
    ({RefNormalize(registros[i].BIM) : i \in 1..Len(registros)}
        \cup {RefNormalize(fechas_BIMs[i].numero_bim) : i \in 1..Len(fechas_BIMs)})
    \ {E}

\* C11: when the attribute table is empty the catalog holds exactly one row
\* for every distinct non-empty normalized identifier of the activity log
\* or the event log, each with a client (the sentinel when none resolves);
\* the activity identifiers "BIM 1", "bim1", " 1 " give one row "1".
C11_FallbackFromLogs ==
    (catalog.status = "returned" /\ catalog.columns /\ biorreactores = <<>>) =>
        /\ Len(catalog.rows) = Cardinality(C11_LogIds)
        /\ {catalog.rows[i].numero_bim : i \in 1..Len(catalog.rows)}
              = {Text(x) : x \in C11_LogIds}
        /\ \A i \in 1..Len(catalog.rows) : catalog.rows[i].cliente # NULL

\* C12: when the attribute table, the activity log and the event log are
\* all empty and every query of the run succeeds, the catalog is empty, no
\* exception is raised, and the home view shows the KPIs and the "no
\* bioreactors found" message and ends its run normally.
C12_EmptyStoreHome ==
    (/\ home.status # "idle"
     /\ biorreactores = <<>> /\ registros = <<>> /\ fechas_BIMs = <<>>
     /\ home.errors = {}) =>
        /\ catalog.rows = <<>>
        /\ home.status = "rendered"
        /\ home.warning

\* C15: when a SQL query of a run fails, the failure is caught, the query
\* yields an empty result with an inline error message and the page
\* continues: the view being rendered ends its run without an unhandled
\* exception.  Stated for the catalog query in a run of the home view.
C15_QueryFailureKeepsPage ==
    (home.status # "idle" /\ "catalog" \in home.errors) => home.status = "rendered"

-----------------------------------------------------------------------------
(* haversine_km and build_route_nearest_neighbor.                          *)
(*                                                                         *)
(* Coordinates are degrees on a grid of multiples of 60, where the terms   *)
(* of the haversine formula are rational: with                             *)
(*   a = sin^2(dlat/2) + cos(lat1) cos(lat2) sin^2(dlon/2)                 *)
(* 16 a is an integer, and the distance 2 R asin(sqrt(a)) is tabulated in  *)
(* whole kilometres for the seventeen values of 16 a.                      *)

MaxStops == 3   \* rows of the frame handed to the route builder

LatVals == <<0 - 60, 0, 60>>
LonVals == <<0, 60, 120>>

Abs(x) == IF x < 0 THEN 0 - x ELSE x

\* 4 sin(x / 2)**2, x in degrees
Sin2Half(x) ==
    CASE Abs(x) = 0   -> 0
      [] Abs(x) = 60  -> 1
      [] Abs(x) = 120 -> 3
      [] Abs(x) = 180 -> 4

\* 2 cos(x), x in degrees
Cos(x) ==
    CASE Abs(x) = 0  -> 2
      [] Abs(x) = 60 -> 1

\* round(R * 2 * asin(sqrt(k / 16))) with R = 6371.0, for k = 0 .. 16
KmOf16a == <<0, 3220, 4605, 5706, 6672, 7559, 8398, 9209, 10008, 10806,
             11617, 12457, 13343, 14309, 15411, 16795, 20015>>

haversine_km(lat1, lon1, lat2, lon2) ==
    LET a16 == 4 * Sin2Half(lat2 - lat1)
               + Cos(lat1) * Cos(lat2) * Sin2Half(lon2 - lon1)
    IN  KmOf16a[a16 + 1]

\* Series.idxmin(): the first position of the smallest value
IdxMin_LastTie(d) ==
    CHOOSE i \in 1..Len(d) :
        /\ \A j \in 1..Len(d) : d[i] <= d[j]
        /\ \A j \in (i + 1)..Len(d) : d[j] > d[i]
IdxMin(d) ==
    CHOOSE i \in 1..Len(d) :
        /\ \A j \in 1..Len(d) : d[i] <= d[j]
        /\ \A j \in 1..(i - 1) : d[j] > d[i]

\* remaining.drop(index=idx).reset_index(drop=True), idx counted from 1
DropRow_First(df, idx) == Tail(df)
DropRow(df, idx) == SubSeq(df, 1, idx - 1) \o SubSeq(df, idx + 1, Len(df))

\* one pass of the while loop: the pair (route_rows, remaining) after it
NearestStep(rows, rem) ==
    LET last  == rows[Len(rows)]
        dists == [i \in 1..Len(rem) |->
                    haversine_km(last.latitud, last.longitud,
                                 rem[i].latitud, rem[i].longitud)]
        next_idx == IdxMin(dists)
    IN  [route_rows |-> Append(rows, rem[next_idx]),
         remaining  |-> DropRow(rem, next_idx)]

RECURSIVE NearestLoop(_, _)
NearestLoop(rows, rem) ==
    IF rem = <<>> THEN rows
    ELSE LET n == NearestStep(rows, rem)
         IN  NearestLoop(n.route_rows, n.remaining)

\* the frame build_route_nearest_neighbor(df) returns
build_route_nearest_neighbor(df) ==
    IF df = <<>> \/ Len(df) = 1 THEN df
    ELSE NearestLoop(<<df[1]>>, DropRow(df, 1))

-----------------------------------------------------------------------------
(* Route runs: build_route_nearest_neighbor, one pass of its loop a step.  *)

\* the frames of at most n stops: row k is device k, anywhere on the grid
StopFrames(n) ==
    UNION {[1..k -> (1..Len(LatVals)) \X (1..Len(LonVals))] : k \in 0..n}

FrameOf(f) ==
    [k \in 1..Len(f) |-> [numero_bim |-> Num(k),
                          latitud    |-> LatVals[f[k][1]],
                          longitud   |-> LonVals[f[k][2]]]]

InitRoute ==
    /\ df_points \in {FrameOf(f) : f \in StopFrames(MaxStops)}
    /\ route_rows = <<>> /\ remaining = <<>> /\ rpc = "start"
    /\ DbIdle /\ KpiIdle /\ CatIdle /\ NormIdle /\ NavHome
    /\ MapIdle /\ calls = <<>> /\ DetIdle /\ BimIdle /\ other = NoOther
    /\ clock = NoClock

\* lines 117-126: the early return, or the first point leaves remaining
RouteStart ==
    /\ rpc = "start"
    /\ IF df_points = <<>> \/ Len(df_points) = 1
       THEN /\ route_rows' = df_points
            /\ remaining' = <<>>
            /\ rpc' = "returned"
       ELSE /\ route_rows' = <<df_points[1]>>
            /\ remaining' = DropRow(df_points, 1)
            /\ rpc' = "loop"
    /\ UNCHANGED <<bimVars, other, clock, df_points, appVars, mapVars, calls, detVars>>

\* lines 128-139: one pass of the while loop
RouteStep ==
    /\ rpc = "loop" /\ remaining # <<>>
    /\ LET n == NearestStep(route_rows, remaining)
       IN  route_rows' = n.route_rows /\ remaining' = n.remaining
    /\ UNCHANGED <<bimVars, other, clock, df_points, rpc, appVars, mapVars, calls, detVars>>

\* lines 141-142: the loop is left and route_df returned
RouteReturn ==
    /\ rpc = "loop" /\ remaining = <<>>
    /\ rpc' = "returned"
    /\ UNCHANGED <<bimVars, other, clock, df_points, route_rows, remaining, appVars, mapVars, calls,
                   detVars>>

NextRoute == RouteStart \/ RouteStep \/ RouteReturn

SpecRoute == InitRoute /\ [][NextRoute]_vars

-----------------------------------------------------------------------------
(* Claims about the route.                                                 *)

\* C13: for N >= 1 points build_route_nearest_neighbor returns a
\* permutation of the input rows (every row exactly once, the same
\* length) whose first row is the first input row; for N <= 1 the output
\* equals the input, and two points A, B come back as [A, B].
C13_RouteIsPermutation ==
    rpc = "returned" =>
        /\ Len(route_rows) = Len(df_points)
        /\ \A i \in 1..Len(df_points) :
              Cardinality({j \in 1..Len(route_rows) :
                              route_rows[j] = df_points[i]}) = 1
        /\ df_points # <<>> => route_rows[1] = df_points[1]
        /\ Len(df_points) <= 2 => route_rows = df_points

\* three stops come back in another order than they were given
C13_Witness ==
    /\ rpc = "returned"
    /\ Len(df_points) = 3
    /\ route_rows = <<df_points[1], df_points[3], df_points[2]>>

RouteDist(x, y) == haversine_km(x.latitud, x.longitud, y.latitud, y.longitud)

\* the input rows not among the first k rows of the route
Unplaced(k) ==
    {df_points[i] : i \in 1..Len(df_points)} \ {route_rows[j] : j \in 1..k}

InputPos(r) == CHOOSE i \in 1..Len(df_points) : df_points[i] = r

C14_NearestEach ==
    \A k \in 2..Len(route_rows) :
        /\ route_rows[k] \in Unplaced(k - 1)
        /\ \A c \in Unplaced(k - 1) :
              \/ RouteDist(route_rows[k - 1], route_rows[k])
                    < RouteDist(route_rows[k - 1], c)
              \/ /\ RouteDist(route_rows[k - 1], route_rows[k])
                       = RouteDist(route_rows[k - 1], c)
                 /\ InputPos(route_rows[k]) <= InputPos(c)

C14_PlacedStays ==
    /\ Len(route_rows') >= Len(route_rows)
    /\ \A i \in 1..Len(route_rows) : route_rows'[i] = route_rows[i]

-----------------------------------------------------------------------------
(* _to_float_coord and get_map_df().                                       *)

IsDigit(c) == \E i \in 1..Len(Digits) : Digits[i] = c

RECURSIVE StrToNat(_)
StrToNat(ds) ==
    IF ds = E THEN 0
    ELSE 10 * StrToNat(SubSeq(ds, 1, Len(ds) - 1))
         + (IndexIn(Digits, ds[Len(ds)]) - 1)

\* \d+ at the start of s: the longest run of digits
RECURSIVE DigitRun(_)
DigitRun(s) ==
    IF s # E /\ IsDigit(Head(s)) THEN <<Head(s)>> \o DigitRun(Tail(s)) ELSE E

RECURSIVE RStripZeros(_)
RStripZeros(ds) ==
    IF ds # E /\ ds[Len(ds)] = "0" THEN RStripZeros(SubSeq(ds, 1, Len(ds) - 1))
    ELSE ds

\* a float: sign, whole part, fraction digits without trailing zeros;
\* NoFloat is None / NaN
NoFloat == [none |-> TRUE, neg |-> FALSE, int |-> 0, frac |-> E]
Float(neg, int, frac) ==
    [none |-> FALSE, neg |-> neg /\ (int # 0 \/ frac # E), int |-> int,
     frac |-> frac]

\* _coord_pattern.search(s): where the leftmost match of
\* [-+]?\d+(?:[.,]\d+)? starts, 0 without a match
CoordMatchStart(s) ==
    LET starts == {i \in 1..Len(s) :
                      \/ IsDigit(s[i])
                      \/ /\ s[i] \in {"-", "+"}
                         /\ i < Len(s)
                         /\ IsDigit(s[i + 1])}
    IN  IF starts = {} THEN 0
        ELSE CHOOSE i \in starts : \A j \in starts : i <= j

to_float_coord(val) ==
    IF val = NULL THEN NoFloat
    ELSE
    LET s == Strip(PyStr(val))
        i == CoordMatchStart(s)
    IN  IF i = 0 THEN NoFloat
        ELSE
        LET signed == s[i] \in {"-", "+"}
            rest   == SubSeq(s, IF signed THEN i + 1 ELSE i, Len(s))
            ip     == DigitRun(rest)
            after  == SubSeq(rest, Len(ip) + 1, Len(rest))
            fp     == IF Len(after) >= 2 /\ after[1] \in {".", ","}
                         /\ IsDigit(after[2])
                      THEN DigitRun(Tail(after))
                      ELSE E
        IN  \* float(m.group(0).replace(",", "."))
            Float(s[i] = "-", StrToNat(ip), RStripZeros(fp))

\* "BIM " + cat["numero_bim"].astype("string")
MapLabel(v) ==
    IF v = NULL THEN NULL ELSE Text(<<"B","I","M"," ">> \o v.s)

MapRow(r) ==
    [cliente |-> r.cliente, numero_bim |-> r.numero_bim,
     latitud |-> to_float_coord(r.latitud),
     longitud |-> to_float_coord(r.longitud),
     label |-> MapLabel(r.numero_bim)]

\* dropna(subset=["latitud", "longitud"]) keeps row r
HasCoords_LonOnly(r) == ~r.longitud.none
HasCoords(r) == ~r.latitud.none /\ ~r.longitud.none

\* get_map_df() computed from the catalog cat: the rows with both
\* coordinates; on a catalog without columns cat["latitud"] raises KeyError
get_map_df(cat) ==
    IF ~cat.columns THEN [status |-> "raised", rows |-> <<>>]
    ELSE [status |-> "returned",
          rows |-> SelectSeq([i \in 1..Len(cat.rows) |-> MapRow(cat.rows[i])],
                             HasCoords)]

-----------------------------------------------------------------------------
(* get_driving_route_ors.                                                  *)

\* st.secrets: no "ors" section, a section without "api_key", or the key
OrsSecrets == {"no_ors", "no_api_key", "api_key"}

\* requests.post / raise_for_status / resp.json(): raises, or gives data
HttpOutcomes == {"raises", "json"}

\* the data of a response: parts the parser indexes may be missing; a
\* route may come with an empty geometry
ApiShapes == {"no_features", "no_summary", "no_geometry", "empty_route",
              "route"}

\* get_driving_route_ors(coords) with the secrets sec, the outcome http of
\* the request and a response of shape `shape`: the triple returned, the
\* st.error written ("" for none) and the requests made.  The route of a
\* well-formed response is 12000 m and 7200 s long.
get_driving_route_ors_Partial(coords, sec, http, shape) ==
    IF sec # "api_key"
    THEN [ret |-> NoneRoute, error |-> "ors_api_key", calls |-> <<>>]
    ELSE IF http = "raises"
    THEN [ret |-> NoneRoute, error |-> "ors_request",
          calls |-> Attempt("ors", TRUE)]
    ELSE IF shape \in {"no_features", "no_summary"}
    THEN [ret |-> NoneRoute, error |-> "ors_response",
          calls |-> Attempt("ors", TRUE)]
    ELSE [ret |-> [none |-> FALSE,
                   distancia_km |-> 12000 \div 1000,
                   duracion_h |-> 7200 \div 3600,
                   geometria |-> IF shape = "route" THEN coords ELSE <<>>],
          error |-> IF shape = "no_geometry" THEN "ors_response" ELSE "",
          calls |-> Attempt("ors", shape = "no_geometry")]
get_driving_route_ors(coords, sec, http, shape) ==
    IF sec # "api_key"
    THEN [ret |-> NoneRoute, error |-> "ors_api_key", calls |-> <<>>]
    ELSE IF http = "raises"
    THEN [ret |-> NoneRoute, error |-> "ors_request",
          calls |-> Attempt("ors", TRUE)]
    ELSE IF shape \in {"no_features", "no_summary", "no_geometry"}
    THEN [ret |-> NoneRoute, error |-> "ors_response",
          calls |-> Attempt("ors", TRUE)]
    ELSE [ret |-> [none |-> FALSE,
                   distancia_km |-> 12000 \div 1000,
                   duracion_h |-> 7200 \div 3600,
                   geometria |-> IF shape = "route" THEN coords ELSE <<>>],
          error |-> "",
          calls |-> Attempt("ors", FALSE)]

-----------------------------------------------------------------------------
(* view_map().                                                             *)

\* base["cliente"].astype("string").str.strip()
ClienteStr(r) == IF r.cliente = NULL THEN NULL ELSE Text(Strip(r.cliente.s))

\* the options of the clients multiselect
ClientesUnicos(base) ==
    {ClienteStr(base.rows[i]).s :
        i \in {k \in 1..Len(base.rows) : base.rows[k].cliente # NULL}} \ {E}

\* the options of the devices multiselect
BimsDisponibles(rows) == {rows[i].numero_bim : i \in 1..Len(rows)}

\* sorted() compares its elements: a pd.NA among two or more raises
SortRaises(S) == NULL \in S /\ Cardinality(S) >= 2

DropDuplicates_Keep(rows) == rows
RECURSIVE DropDuplicates(_)
\* .drop_duplicates(): the first of equal rows stays
DropDuplicates(rows) ==
    IF rows = <<>> THEN <<>>
    ELSE LET front == DropDuplicates(SubSeq(rows, 1, Len(rows) - 1))
             last  == rows[Len(rows)]
         IN  IF \E i \in 1..Len(front) : front[i] = last THEN front
             ELSE Append(front, last)

\* a coordinate of the grid in whole degrees
Deg(f) == IF f.neg THEN 0 - f.int ELSE f.int

StopRow(r) == [cliente |-> ClienteStr(r), numero_bim |-> r.numero_bim,
               latitud |-> Deg(r.latitud), longitud |-> Deg(r.longitud)]

\* df_map[df_map["cliente"].isin(clientes_sel)]
MapFilter(rows, clientes_sel) ==
    LET Chosen(r) == r.cliente # NULL /\ ClienteStr(r).s \in clientes_sel
    IN  SelectSeq(rows, Chosen)

\* the stops of the route: the chosen devices, duplicates dropped
Stops(df_map, bims_sel) ==
    LET InRoute(r) == r.numero_bim \in bims_sel
        picked == SelectSeq(df_map, InRoute)
    IN  DropDuplicates([i \in 1..Len(picked) |-> StopRow(picked[i])])

\* One run of view_map() past its two loaders: base is the catalog, df the
\* frame of get_map_df(), clientes_sel and bims_sel the multiselects,
\* calcular_ruta the button; sec, http and shape decide the directions
\* request.  Gives the page (with the triple get_driving_route_ors
\* returned) and the requests made.
view_map(base, df, clientes_sel, bims_sel, calcular_ruta, sec, http, shape) ==
    LET df_map    == MapFilter(df.rows, clientes_sel)
        page(st, info) == [status |-> st, info |-> info, errors |-> {},
                           layers |-> <<>>, metrics |-> FALSE, route |-> <<>>,
                           triple |-> NoneRoute]
    IN  IF clientes_sel = {}
        THEN [map |-> page("rendered", "no_clients"), calls |-> <<>>]
        ELSE IF df_map = <<>>
        THEN [map |-> page("rendered", "no_coords"), calls |-> <<>>]
        ELSE IF SortRaises(BimsDisponibles(df_map))
        THEN [map |-> page("exception", ""), calls |-> <<>>]
        ELSE
        LET stops    == Stops(df_map, bims_sel)
            few      == Len(stops) < 2
            route_df == build_route_nearest_neighbor(stops)
            coords   == [i \in 1..Len(route_df) |->
                            <<route_df[i].longitud, route_df[i].latitud>>]
            asked    == calcular_ruta /\ ~few
            ors      == IF asked
                        THEN get_driving_route_ors(coords, sec, http, shape)
                        ELSE [ret |-> NoneRoute, error |-> "", calls |-> <<>>]
            path     == ~ors.ret.none /\ ors.ret.geometria # <<>>
        IN  [map |-> [status  |-> "rendered",
                      info    |-> IF calcular_ruta /\ few THEN "few_stops" ELSE "",
                      errors  |-> IF ors.error = "" THEN {} ELSE {ors.error},
                      layers  |-> <<"IconLayer", "TextLayer">>
                                  \o (IF path THEN <<"PathLayer">> ELSE <<>>),
                      metrics |-> path,
                      route   |-> IF asked THEN route_df ELSE <<>>,
                      triple  |-> ors.ret],
             calls |-> ors.calls]

-----------------------------------------------------------------------------
(* get_registros, get_diagnosticos, get_eventos.                           *)
(*                                                                         *)
(* A timestamp is the number of its day; the range of view_detail runs     *)
(* from the first instant of day d1 to the last instant of day d2.         *)

\* col = :bim, compared under the collation of the connection
SqlEq(v, bim) == v # NULL /\ CollKey(AsString(v)) = CollKey(bim)

\* fecha BETWEEN :d1 AND :d2
Between_Open(f, d1, d2) == d1 < f /\ f < d2
Between(f, d1, d2) == d1 <= f /\ f <= d2

\* ORDER BY fecha DESC over the rows ids of table t: rows of one day come
\* in an order the server chooses
SqlOrderDesc(t, ids) ==
    LET n == Cardinality(ids)
    IN  {p \in [1..n -> ids] :
            /\ \A i, j \in 1..n : i # j => p[i] # p[j]
            /\ \A i \in 1..(n - 1) : t[p[i]].fecha >= t[p[i + 1]].fecha}

\* The frames the three loaders may return, as the ids (positions) of the
\* rows selected, in order.
get_registros(bim, d1, d2) ==
    SqlOrderDesc(registros,
        {i \in 1..Len(registros) :
            SqlEq(registros[i].BIM, bim) /\ Between(registros[i].fecha, d1, d2)})

get_diagnosticos(bim, d1, d2) ==
    SqlOrderDesc(diagnosticos,
        {i \in 1..Len(diagnosticos) :
            /\ diagnosticos[i].usuario_id # NULL
            /\ \E k \in 1..Len(registros) :
                  /\ SqlEq(registros[k].BIM, bim)
                  /\ registros[k].usuario_id = diagnosticos[i].usuario_id
            /\ Between(diagnosticos[i].fecha, d1, d2)})

get_eventos(bim, d1, d2) ==
    SqlOrderDesc(fechas_BIMs,
        {i \in 1..Len(fechas_BIMs) :
            /\ SqlEq(fechas_BIMs[i].numero_bim, bim)
            /\ Between(fechas_BIMs[i].fecha, d1, d2)})

DetailLoaders == {"registros", "diagnosticos", "eventos"}

-----------------------------------------------------------------------------
(* view_detail().                                                          *)

\* str(st.session_state.selected_bim) if st.session_state.selected_bim
\* else None
DetailBim(ss) ==
    IF ss.selected_bim = NULL \/ ss.selected_bim.s = E THEN NULL
    ELSE ss.selected_bim

\* bim in set(catalogo["numero_bim"].astype("string"))
InCatalog(cat, bim) ==
    \E i \in 1..Len(cat.rows) : cat.rows[i].numero_bim = bim

\* the days the two date inputs can be set to
DayVals == <<1, 2>>

\* One run of view_detail() past the catalog guard, on the frames r, d, e
\* of the three loaders; msgs are the loaders whose query failed.
view_detail(bim, d1, d2, r, d, e, msgs) ==
    [status |-> "rendered", bim |-> bim, d1 |-> d1, d2 |-> d2,
     registros |-> r, diagnosticos |-> d, eventos |-> e, errors |-> msgs]

-----------------------------------------------------------------------------
(* The pages of the application.                                           *)

\* what the directions request of a run can meet
OrsCases ==
    {[sec |-> "no_ors", http |-> "raises", shape |-> "route"],
     [sec |-> "no_api_key", http |-> "raises", shape |-> "route"],
     [sec |-> "api_key", http |-> "raises", shape |-> "route"]}
    \cup {[sec |-> "api_key", http |-> "json", shape |-> sh] : sh \in ApiShapes}

\* One script run routed to view_map().  get_biorreactores() is called by
\* view_map and again inside get_map_df() when that misses its cache; the
\* entry of the first call may have passed its time-to-live by then.
ViewMap ==
    /\ session_state.page = "map"
    /\ map.status = "idle"
    /\ \E fails \in (IF catalog.status = "returned" THEN {FALSE} ELSE BOOLEAN) :
       \E base \in (IF catalog.status = "returned" THEN {catalog}
                    ELSE get_biorreactores(fails)) :
       LET reqs1 == IF catalog.status = "returned" THEN <<>>
                    ELSE Attempt("catalog", fails)
           raised(cat, reqs) ==
               /\ map' = [NoMap EXCEPT !.status = "exception",
                                       !.errors = {"catalog"}]
               /\ catalog' = cat /\ mapdf' = mapdf /\ calls' = reqs
       IN  IF ~base.columns THEN raised(base, reqs1)   \* base["cliente"]
           ELSE
           \E clientes_sel \in SUBSET ClientesUnicos(base) :
           IF clientes_sel = {}
           THEN /\ map' = view_map(base, NoMapDf, {}, {}, FALSE,
                                   "no_ors", "raises", "route").map
                /\ catalog' = base /\ mapdf' = mapdf /\ calls' = reqs1
           ELSE
           \E expired \in (IF mapdf.status = "returned" THEN {FALSE} ELSE BOOLEAN) :
           \E fails2 \in (IF expired THEN BOOLEAN ELSE {FALSE}) :
           \E cat2 \in (IF expired THEN get_biorreactores(fails2) ELSE {base}) :
           LET df    == IF mapdf.status = "returned" THEN mapdf
                        ELSE get_map_df(cat2)
               reqs2 == reqs1 \o (IF expired THEN Attempt("catalog", fails2)
                                  ELSE <<>>)
           IN  IF df.status = "raised" THEN raised(cat2, reqs2)  \* cat["latitud"]
               ELSE
               \E bims_sel \in SUBSET BimsDisponibles(MapFilter(df.rows, clientes_sel)) :
               \E calcular_ruta \in BOOLEAN :
               \E o \in (IF /\ calcular_ruta
                            /\ Len(Stops(MapFilter(df.rows, clientes_sel),
                                         bims_sel)) >= 2
                         THEN OrsCases
                         ELSE {CHOOSE c \in OrsCases : c.sec = "no_ors"}) :
                  LET r == view_map(base, df, clientes_sel, bims_sel,
                                    calcular_ruta, o.sec, o.http, o.shape)
                  IN  /\ map' = r.map
                      /\ calls' = reqs2 \o r.calls
                      /\ catalog' = cat2
                      /\ mapdf' = df
    /\ home' = NoHome /\ detail' = NoDetail
    /\ UNCHANGED <<bimVars, other, clock, normVars, dbVars, kpiVars, navVars, routeVars, dcache>>

\* the cache entry of get_map_df() passes its time-to-live (1 s)
ExpireMapDf ==
    /\ mapdf.status = "returned"
    /\ mapdf' = NoMapDf
    /\ UNCHANGED <<bimVars, other, clock, appVars, routeVars, map, calls, detVars>>

\* the cache entries of the loaders of view_detail() pass their
\* time-to-live (180 s)
ExpireDcache ==
    /\ dcache.status = "held"
    /\ dcache' = NoDcache
    /\ UNCHANGED <<bimVars, other, clock, appVars, routeVars, mapVars, calls, detail>>

\* One script run routed to view_detail().
ViewDetail ==
    /\ session_state.page = "detail"
    /\ detail.status = "idle"
    /\ \E fails \in (IF catalog.status = "returned" THEN {FALSE} ELSE BOOLEAN) :
       \E cat \in (IF catalog.status = "returned" THEN {catalog}
                   ELSE get_biorreactores(fails)) :
       LET bim  == DetailBim(session_state)
           reqs == IF catalog.status = "returned" THEN <<>>
                   ELSE Attempt("catalog", fails)
           nav  == [session_state |-> session_state, query_params |-> query_params]
       IN  /\ catalog' = cat
           /\ IF bim # NULL /\ ~cat.columns
              THEN \* catalogo["numero_bim"] raises KeyError
                   /\ detail' = [NoDetail EXCEPT !.status = "exception",
                                                 !.bim = bim,
                                                 !.errors = {"catalog"}]
                   /\ calls' = reqs
                   /\ UNCHANGED <<navVars, dcache>>
              ELSE IF bim = NULL \/ ~InCatalog(cat, bim)
              THEN \* st.info, go_home(), st.stop()
                   /\ detail' = [NoDetail EXCEPT !.status = "not_found",
                                                 !.bim = bim]
                   /\ session_state' = go_home(nav).session_state
                   /\ query_params' = go_home(nav).query_params
                   /\ calls' = reqs
                   /\ UNCHANGED dcache
              ELSE
              \E i1, i2 \in 1..Len(DayVals) :
              LET d1  == DayVals[i1]
                  d2  == DayVals[i2]
                  hit == /\ dcache.status = "held" /\ dcache.bim = bim
                         /\ dcache.d1 = d1 /\ dcache.d2 = d2
              IN  \E failed \in (IF hit THEN {dcache.errors} ELSE SUBSET DetailLoaders) :
                  \E r \in (IF hit THEN {dcache.registros}
                            ELSE IF "registros" \in failed THEN {<<>>}
                            ELSE get_registros(bim.s, d1, d2)) :
                  \E d \in (IF hit THEN {dcache.diagnosticos}
                            ELSE IF "diagnosticos" \in failed THEN {<<>>}
                            ELSE get_diagnosticos(bim.s, d1, d2)) :
                  \E e \in (IF hit THEN {dcache.eventos}
                            ELSE IF "eventos" \in failed THEN {<<>>}
                            ELSE get_eventos(bim.s, d1, d2)) :
                     /\ detail' = view_detail(bim, d1, d2, r, d, e, failed)
                     /\ dcache' = [detail' EXCEPT !.status = "held"]
                     /\ calls' = reqs \o
                          (IF hit THEN <<>>
                           ELSE Attempt("registros", "registros" \in failed)
                                \o Attempt("diagnosticos", "diagnosticos" \in failed)
                                \o Attempt("eventos", "eventos" \in failed))
                     /\ UNCHANGED navVars
    /\ home' = NoHome /\ map' = NoMap
    /\ UNCHANGED <<bimVars, other, clock, normVars, dbVars, kpiVars, routeVars, mapdf>>

\* A widget of the page shown is used: Streamlit discards the page and
\* runs the script again (the View action that follows).
Interact ==
    /\ map.status # "idle" \/ detail.status # "idle"
    /\ map' = NoMap /\ detail' = NoDetail /\ calls' = <<>>
    /\ UNCHANGED <<bimVars, other, clock, appVars, routeVars, mapdf, dcache>>

\* The link "Volver al Panel General" (href="?page=home") is followed: the
\* browser loads the page anew, in a new session whose state lines 303-306
\* fill from the query string.  The caches are the server's and stay.
FollowHomeLink ==
    /\ \/ session_state.page = "map" /\ map.status # "idle"
       \/ session_state.page = "detail" /\ detail.status = "rendered"
    /\ session_state' = [page |-> "home", selected_bim |-> NULL]
    /\ query_params' = [page |-> Text(<<"h","o","m","e">>), bim |-> NULL]
    /\ home' = NoHome /\ map' = NoMap /\ detail' = NoDetail /\ calls' = <<>>
    /\ UNCHANGED <<bimVars, other, clock, normVars, dbVars, kpiVars, catalog, routeVars, mapdf, dcache>>

-----------------------------------------------------------------------------
(* Map runs: the map page over a store whose attribute table varies.       *)

MaxMapRows == 2   \* rows of biorreactores in the map runs

MapRowVals ==
    << [cliente |-> Text(<<"A">>), numero_bim |-> Text(<<"1">>),
        latitud |-> Text(<<"0">>), longitud |-> Text(<<"0">>)],
       [cliente |-> Text(<<"A">>), numero_bim |-> Text(<<"2">>),
        latitud |-> Num(60), longitud |-> Text(<<"0">>)],
       [cliente |-> Text(<<"A"," ">>), numero_bim |-> Text(<<"3">>),
        latitud |-> Text(<<"0">>), longitud |-> Text(<<"6","0",",","0">>)],
       [cliente |-> Text(<<"B">>), numero_bim |-> Text(<<"1">>),
        latitud |-> Text(<<"-","6","0">>), longitud |-> Text(<<" ","1","2","0">>)],
       [cliente |-> Text(<<"B">>), numero_bim |-> Text(<<"2">>),
        latitud |-> NULL, longitud |-> Text(<<"0">>)],
       [cliente |-> NULL, numero_bim |-> Text(<<"4">>),
        latitud |-> Text(<<"0">>), longitud |-> Text(<<"1","2","0">>)],
       [cliente |-> Text(<<"B">>), numero_bim |-> NULL,
        latitud |-> Text(<<"6","0">>), longitud |-> Text(<<"6","0",".","0">>)],
       [cliente |-> Text(<<"B">>), numero_bim |-> Text(<<"5">>),
        latitud |-> Text(<<"s","/","n">>), longitud |-> Text(<<"x">>)] >>

\* one table for every multiset of rows
MapTables(n) ==
    {[i \in 1..Len(s) |-> MapRowVals[s[i]]] : s \in SortedIdx(Len(MapRowVals), n)}

\* a session opened on ?page=map
NavMap ==
    /\ session_state = [page |-> "map", selected_bim |-> NULL]
    /\ query_params = [page |-> Text(<<"m","a","p">>), bim |-> NULL]

InitMap ==
    /\ biorreactores \in MapTables(MaxMapRows)
    /\ clientes = << [BIMs_instalados |-> Num(2)] >>
    /\ registros = <<>> /\ diagnosticos = <<>> /\ fechas_BIMs = <<>>
    /\ NavMap
    /\ KpiIdle /\ CatIdle /\ NormIdle /\ RestIdle

NextMap ==
    \/ GetBiorreactores \/ ExpireCatalog \/ ExpireMapDf
    \/ ViewMap \/ Interact

SpecMap == InitMap /\ [][NextMap]_vars

-----------------------------------------------------------------------------
(* Application runs: the three pages and the ways between them, over a few *)
(* stores.                                                                 *)

\* the attribute table: two clients with a device "1" each; two devices of
\* one client, one without a position; a device without identifier; no
\* device
AppTables ==
    { <<MapRowVals[1], MapRowVals[4]>>,
      <<MapRowVals[2], MapRowVals[5]>>,
      <<MapRowVals[7], MapRowVals[1]>>,
      <<>> }

\* a session that starts on the home page, the KPIs cached
InitApp ==
    /\ biorreactores \in AppTables
    /\ clientes = << [BIMs_instalados |-> Num(2)] >>
    /\ registros = << [BIM |-> Text(<<"1">>), usuario_id |-> Num(1), fecha |-> 1] >>
    /\ diagnosticos = << [usuario_id |-> Num(1), fecha |-> 2] >>
    /\ fechas_BIMs = << [numero_bim |-> Text(<<"1">>), fecha |-> 1] >>
    /\ kpis = get_kpis({}).result /\ errors = {}
    /\ CatIdle /\ NormIdle /\ NavHome /\ RestIdle

NextApp ==
    \/ GetBiorreactores \/ ExpireCatalog \/ ExpireMapDf \/ ExpireDcache
    \/ ViewHome \/ ViewMap \/ ViewDetail \/ Interact \/ FollowHomeLink

SpecApp == InitApp /\ [][NextApp]_vars

-----------------------------------------------------------------------------
(* Detail runs: the detail page of one device over activity and diagnostic *)
(* logs that vary.                                                         *)

MaxDetRows == 2   \* rows of registros in the detail runs

DetBimVals == <<Text(<<"1">>), Text(<<"2">>)>>

\* activity entries: device, user 1 or 2, day 1 or 2
DetRegVals ==
    [i \in 1..8 |-> [BIM        |-> DetBimVals[((i - 1) \div 4) + 1],
                     usuario_id |-> Num((((i - 1) \div 2) % 2) + 1),
                     fecha      |-> ((i - 1) % 2) + 1]]

\* diagnostic entries: user 1 or 2, day 1 or 2
DetDiagVals ==
    [i \in 1..4 |-> [usuario_id |-> Num(((i - 1) \div 2) + 1),
                     fecha      |-> ((i - 1) % 2) + 1]]

DetRegTables(n) ==
    {[i \in 1..Len(s) |-> DetRegVals[s[i]]] : s \in SortedIdx(Len(DetRegVals), n)}

DetDiagTables(n) ==
    {[i \in 1..Len(s) |-> DetDiagVals[s[i]]] : s \in SortedIdx(Len(DetDiagVals), n)}

\* a session opened on ?page=detail&bim=b
NavDetail(b) ==
    /\ session_state = [page |-> "detail", selected_bim |-> Text(b)]
    /\ query_params = [page |-> Text(<<"d","e","t","a","i","l">>), bim |-> Text(b)]

InitDetail ==
    /\ biorreactores = <<MapRowVals[1], MapRowVals[2]>>
    /\ clientes = << [BIMs_instalados |-> Num(2)] >>
    /\ registros \in DetRegTables(MaxDetRows)
    /\ diagnosticos \in DetDiagTables(MaxLog)
    /\ fechas_BIMs = << [numero_bim |-> Text(<<"1">>), fecha |-> 1] >>
    /\ \E b \in {<<"1">>, <<"2">>, <<"9">>} : NavDetail(b)
    /\ KpiIdle /\ CatIdle /\ NormIdle /\ RestIdle

NextDetail == ViewDetail \/ Interact \/ ExpireDcache

SpecDetail == InitDetail /\ [][NextDetail]_vars

-----------------------------------------------------------------------------
(* Claims about failures, retries and writes.                              *)

OrsErrors == {"ors_api_key", "ors_request", "ors_response"}

\* C16: a failure of the directions API (no API key, an HTTP or transport
\* error, a malformed response) is reported inline:
\* get_driving_route_ors returns (None, None, None) without raising, and
\* view_map still renders the map with its icon and label layers and no
\* path layer.
C16_ApiFailureKeepsMap ==
    (map.errors \cap OrsErrors # {}) =>
        /\ map.triple = NoneRoute
        /\ map.status = "rendered"
        /\ map.layers = <<"IconLayer", "TextLayer">>
        /\ ~map.metrics

\* a route over two stops was asked for and the request failed; another
\* run met a malformed response
C16_Witness ==
    /\ map.status = "rendered"
    /\ Len(map.route) >= 2
    /\ map.errors \in {{"ors_request"}, {"ors_response"}}
    /\ \E i \in 1..Len(calls) : calls[i].req = "ors" /\ ~calls[i].ok

\* C17: nothing is retried: within one script run a failed SQL query or a
\* failed directions request is attempted once and followed by its
\* fallback (an empty result, the None triple), never by a second attempt
\* of the same request.
C17_NoRetry ==
    /\ \A i, j \in 1..Len(calls) :
          (i < j /\ calls[i].req = calls[j].req) => calls[i].ok
    /\ \A i \in 1..Len(calls) :
          ~calls[i].ok =>
             /\ calls[i].req = "ors" => map.triple = NoneRoute
             /\ calls[i].req = "registros" => detail.registros = <<>>
             /\ calls[i].req = "diagnosticos" => detail.diagnosticos = <<>>
             /\ calls[i].req = "eventos" => detail.eventos = <<>>

\* a detail run in which the activity query failed and the events query
\* answered with a row
C17_Witness ==
    /\ detail.status = "rendered"
    /\ \E i \in 1..Len(calls) : calls[i].req = "registros" /\ ~calls[i].ok
    /\ detail.registros = <<>>
    /\ detail.eventos # <<>>

\* C18: the application only reads: over every sequence of page loads,
\* navigation, filter changes and route calculations the contents of
\* clientes, biorreactores, registros, diagnosticos and fechas_BIMs stay as
\* they are, and the catalog is never written back.
C18_ReadOnly == [][UNCHANGED dbVars]_vars

\* a route was calculated on the map page after a detail page had been
\* loaded and left through the home link
C18_Witness ==
    /\ map.status = "rendered"
    /\ Len(map.route) >= 2
    /\ dcache.status = "held"
    /\ catalog.status = "returned"

-----------------------------------------------------------------------------
(* Claims about the detail page.                                           *)

\* diagnostic entry i is in the frame the diagnostics tab shows
DiagShown(i) ==
    \E k \in 1..Len(detail.diagnosticos) : detail.diagnosticos[k] = i

\* a most recent activity entry of user u is one of device bim
LatestActivityOn(u, bim) ==
    \E k \in 1..Len(registros) :
        /\ registros[k].usuario_id = u
        /\ SqlEq(registros[k].BIM, bim)
        /\ \A j \in 1..Len(registros) :
              registros[j].usuario_id = u =>
                 registros[j].fecha <= registros[k].fecha

\* C20: a diagnostic entry is shown for device B exactly when the most
\* recent activity entry of its user belongs to B and its timestamp lies in
\* the selected range: a user whose latest activity is on another device
\* contributes no diagnostics to B.
C20_DiagnosticsByLatestActivity ==
    (detail.status = "rendered" /\ "diagnosticos" \notin detail.errors) =>
        \A i \in 1..Len(diagnosticos) :
            DiagShown(i) <=>
                /\ Between(diagnosticos[i].fecha, detail.d1, detail.d2)
                /\ LatestActivityOn(diagnosticos[i].usuario_id, detail.bim.s)

-----------------------------------------------------------------------------
(* app_bim_dashboard.py: the optional Mongo collection of images.          *)
(*                                                                         *)
(* mongo holds what the page finds around it: whether secrets.toml has a   *)
(* [mongo] section, the uri of that section, the variable MONGO_URI (NULL  *)
(* when unset) and the documents of the collection.                        *)

MaxDocs    == 2    \* documents in the collection
MongoLimit == 20   \* .limit(20)

UriVals == {NULL, Text(E), Text(<<"m">>)}

\* documents {bim_id, fecha, filename, url}; filename and url may be absent
MongoDocVals ==
    << [bim_id |-> 1, fecha |-> 1, filename |-> Text(<<"a">>), url |-> Text(<<"u">>)],
       [bim_id |-> 1, fecha |-> 2, filename |-> NULL,          url |-> NULL],
       [bim_id |-> 1, fecha |-> 2, filename |-> Text(<<"b">>), url |-> Text(E)],
       [bim_id |-> 2, fecha |-> 1, filename |-> Text(<<"c">>), url |-> Text(<<"v">>)] >>

MongoTables(n) ==
    {[i \in 1..Len(s) |-> MongoDocVals[s[i]]] :
        s \in SortedIdx(Len(MongoDocVals), n)}

\* the uri get_mongo_collection reads: the one of the [mongo] section when
\* the section exists, the environment's otherwise
MongoUri(cfg) == IF cfg.section THEN cfg.secret_uri ELSE cfg.env_uri

\* get_mongo_collection(): the collection (named by its uri) or None, the
\* number of MongoClient objects created, and whether MongoClient(uri)
\* raised (client_ok = FALSE: the uri is one it rejects)
get_mongo_collection_Eager(cfg, client_ok) ==
    LET uri == MongoUri(cfg)
    IN  IF ~client_ok
        THEN [col |-> NULL, clients |-> 0, raised |-> TRUE]
        ELSE IF uri = NULL \/ uri.s = E
        THEN [col |-> NULL, clients |-> 1, raised |-> FALSE]
        ELSE [col |-> uri, clients |-> 1, raised |-> FALSE]
get_mongo_collection(cfg, client_ok) ==
    LET uri == MongoUri(cfg)
    IN  IF uri = NULL \/ uri.s = E
        THEN [col |-> NULL, clients |-> 0, raised |-> FALSE]
        ELSE IF ~client_ok
        THEN [col |-> NULL, clients |-> 0, raised |-> TRUE]
        ELSE [col |-> uri, clients |-> 1, raised |-> FALSE]

\* col.find({"bim_id": int(bim_id)}).sort("fecha", -1).limit(20): the
\* positions of the documents found, in the orders the server may answer
MongoFind(docs, bim_id) ==
    {SubSeq(p, 1, IF Len(p) < MongoLimit THEN Len(p) ELSE MongoLimit) :
        p \in SqlOrderDesc(docs, {i \in 1..Len(docs) : docs[i].bim_id = bim_id})}

\* what the loop of the images tab writes for document d
ImageItem(d) ==
    [nombre |-> IF d.filename = NULL THEN Text(<<"i","m","a","g","e","n">>)
                ELSE d.filename,
     fecha  |-> d.fecha,
     image  |-> d.url # NULL /\ d.url.s # E]

\* The images tab T4 on the answer g of get_mongo_collection(): found are
\* the documents of the device, read_fails says the read raised.
images_tab(g, docs, found, read_fails) ==
    IF g.col = NULL
    THEN [t4 |-> "info_unconfigured", read |-> "none", items |-> <<>>]
    ELSE IF read_fails
    THEN [t4 |-> "warning", read |-> "failed", items |-> <<>>]
    ELSE IF found = <<>>
    THEN [t4 |-> "info_empty", read |-> "ok", items |-> <<>>]
    ELSE [t4 |-> "listed", read |-> "ok",
          items |-> [i \in 1..Len(found) |-> ImageItem(docs[found[i]])]]

\* outcomes of load_clientes_y_bims() in the sidebar
SidebarOutcomes == {"raised", "empty", "rows"}

\* the devices the sidebar can select
BimIds == {1, 2}

\* One run of the page script. sql is the outcome of the sidebar's query,
\* loaders_ok says the loaders of the panels and of tabs T1..T3 returned.
bim_dashboard(cfg, sql, bim_id, loaders_ok, client_ok, found, read_fails) ==
    IF sql = "raised"
    THEN [NoBimPage EXCEPT !.status = "exception"]
    ELSE IF sql = "empty"
    THEN \* st.error, st.stop()
         [NoBimPage EXCEPT !.status = "stopped"]
    ELSE IF ~loaders_ok
    THEN [NoBimPage EXCEPT !.status = "exception", !.bim_id = bim_id]
    ELSE LET g == get_mongo_collection(cfg, client_ok)
             t == images_tab(g, cfg.docs, found, read_fails)
         IN  IF g.raised
             THEN [NoBimPage EXCEPT !.status = "exception", !.bim_id = bim_id,
                                    !.tabs = TRUE]
             ELSE [status |-> "rendered", bim_id |-> bim_id, tabs |-> TRUE,
                   t4 |-> t.t4, read |-> t.read, items |-> t.items,
                   clients |-> g.clients, rest |-> TRUE]

\* A run of app_bim_dashboard.py.
ViewBim ==
    /\ \E sql \in SidebarOutcomes, bim_id \in BimIds :
       \E loaders_ok, client_ok, read_fails \in BOOLEAN :
       \E found \in MongoFind(mongo.docs, bim_id) :
          bim_page' = bim_dashboard(mongo, sql, bim_id, loaders_ok, client_ok,
                                    found, read_fails)
    /\ UNCHANGED <<mongo, overview, series, other, clock, appVars, routeVars, mapVars,
                   calls, detVars>>

InitBim ==
    /\ mongo \in [section : BOOLEAN, secret_uri : UriVals, env_uri : UriVals,
                  docs : MongoTables(MaxDocs)]
    /\ bim_page = NoBimPage /\ overview = NoOverview /\ series = NoSeries
    /\ clientes = <<>> /\ biorreactores = <<>> /\ registros = <<>>
    /\ diagnosticos = <<>> /\ fechas_BIMs = <<>>
    /\ NormIdle /\ KpiIdle /\ CatIdle /\ NavHome
    /\ RouteIdle /\ MapIdle /\ calls = <<>> /\ DetIdle /\ other = NoOther
    /\ clock = NoClock

NextBim == ViewBim

SpecBim == InitBim /\ [][NextBim]_vars

-----------------------------------------------------------------------------
(* Claims about the Mongo collection.                                      *)

\* C19: the document store is optional. When no Mongo URI is configured,
\* get_mongo_collection returns None without creating a client and the
\* images tab shows an informational message; when reading the documents
\* fails, the error is caught and shown as a warning; in both cases the
\* rest of the page is rendered.
C19_MongoOptional ==
    /\ (bim_page.tabs /\ (MongoUri(mongo) = NULL \/ MongoUri(mongo).s = E)) =>
          /\ bim_page.t4 = "info_unconfigured"
          /\ bim_page.clients = 0
          /\ bim_page.status = "rendered" /\ bim_page.rest
    /\ bim_page.read = "failed" =>
          /\ bim_page.t4 = "warning"
          /\ bim_page.status = "rendered" /\ bim_page.rest

\* the read failed on a collection that holds documents of the device,
\* under a uri taken from the environment
C19_Witness ==
    /\ bim_page.read = "failed" /\ bim_page.t4 = "warning"
    /\ ~mongo.section /\ mongo.env_uri = Text(<<"m">>)
    /\ \E i \in 1..Len(mongo.docs) : mongo.docs[i].bim_id = bim_page.bim_id

-----------------------------------------------------------------------------
(* Navigation runs: go_home, go_detail and go_map called in any order on   *)
(* a session opened on any URL.                                            *)

MaxBimLen == 3   \* longest device identifier of the navigation runs

\* device identifiers a URL or a catalog row can carry
NavBimVals == SeqsUpTo({"1", "2", "b"}, MaxBimLen)

\* the query parameter "page" for each page name of the session; "other"
\* stands for a page name the routing does not know
PageParam(p) ==
    CASE p = "home"   -> Text(<<"h","o","m","e">>)
      [] p = "detail" -> Text(<<"d","e","t","a","i","l">>)
      [] p = "map"    -> Text(<<"m","a","p">>)
      [] OTHER        -> Text(<<"x">>)

PageNames == {"home", "detail", "map", "other"}

\* lines 303-306: the session state of a session opened on a URL with the
\* parameters qp
SessionInit(qp) ==
    [page |-> IF qp.page = NULL THEN "home"
              ELSE CHOOSE p \in PageNames : PageParam(p) = qp.page,
     selected_bim |-> qp.bim]

InitNav ==
    /\ query_params \in
          [page : {NULL} \cup {PageParam(p) : p \in PageNames},
           bim  : {NULL} \cup {Text(b) : b \in NavBimVals}]
    /\ session_state = SessionInit(query_params)
    /\ DbIdle /\ KpiIdle /\ CatIdle /\ NormIdle /\ RestIdle

GoHome ==
    /\ session_state' = go_home([session_state |-> session_state,
                                 query_params |-> query_params]).session_state
    /\ query_params' = go_home([session_state |-> session_state,
                                query_params |-> query_params]).query_params
    /\ UNCHANGED <<normVars, dbVars, kpiVars, catVars, restVars>>

GoDetail ==
    /\ \E b \in NavBimVals :
       LET nav == [session_state |-> session_state, query_params |-> query_params]
       IN  /\ session_state' = go_detail(nav, b).session_state
           /\ query_params' = go_detail(nav, b).query_params
    /\ UNCHANGED <<normVars, dbVars, kpiVars, catVars, restVars>>

GoMap ==
    /\ session_state' = go_map([session_state |-> session_state,
                                query_params |-> query_params]).session_state
    /\ query_params' = go_map([session_state |-> session_state,
                               query_params |-> query_params]).query_params
    /\ UNCHANGED <<normVars, dbVars, kpiVars, catVars, restVars>>

NextNav == GoHome \/ GoDetail \/ GoMap

SpecNav == InitNav /\ [][NextNav]_vars

-----------------------------------------------------------------------------
(* Two user sessions on one server.  session_state and query_params are    *)
(* those of the session whose script runs; other holds the second          *)
(* session.  The caches of st.cache_data belong to the process and are     *)
(* the same for both.                                                      *)

\* The second session's browser gets its turn: its st.session_state and
\* st.query_params become the running ones, the first session's are set
\* aside as they are.  The page on screen is now the second browser's.
SwitchSession_Global ==
    /\ other.id # 0
    /\ other' = [id |-> 3 - other.id, session_state |-> session_state,
                 query_params |-> query_params]
    /\ UNCHANGED <<session_state, query_params>>
    /\ home' = NoHome /\ map' = NoMap /\ detail' = NoDetail /\ calls' = <<>>
    /\ UNCHANGED <<normVars, dbVars, kpiVars, catalog, routeVars, mapdf, dcache,
                   bimVars, clock>>
SwitchSession ==
    /\ other.id # 0
    /\ other' = [id |-> 3 - other.id, session_state |-> session_state,
                 query_params |-> query_params]
    /\ session_state' = other.session_state
    /\ query_params' = other.query_params
    /\ home' = NoHome /\ map' = NoMap /\ detail' = NoDetail /\ calls' = <<>>
    /\ UNCHANGED <<normVars, dbVars, kpiVars, catalog, routeVars, mapdf, dcache,
                   bimVars, clock>>

\* two sessions opened on the home page, the KPIs cached
InitSessions ==
    /\ biorreactores = <<MapRowVals[1]>>
    /\ clientes = << [BIMs_instalados |-> Num(2)] >>
    /\ registros = << [BIM |-> Text(<<"1">>), usuario_id |-> Num(1), fecha |-> 1] >>
    /\ diagnosticos = << [usuario_id |-> Num(1), fecha |-> 2] >>
    /\ fechas_BIMs = << [numero_bim |-> Text(<<"1">>), fecha |-> 1] >>
    /\ kpis = get_kpis({}).result /\ errors = {}
    /\ CatIdle /\ NormIdle /\ NavHome
    /\ RouteIdle /\ MapIdle /\ calls = <<>> /\ DetIdle /\ BimIdle
    /\ other = [NoOther EXCEPT !.id = 2]
    /\ clock = NoClock

NextSessions ==
    \/ ExpireCatalog \/ ViewHome \/ ViewMap \/ ViewDetail \/ Interact
    \/ FollowHomeLink \/ SwitchSession

SpecSessions == InitSessions /\ [][NextSessions]_vars

-----------------------------------------------------------------------------
(* Time-to-live of the caches of get_biorreactores and get_map_df.         *)
(*                                                                         *)
(* Time advances in ticks.  An entry of st.cache_data answers a call while *)
(* its age is below the time-to-live of its function and is recomputed by  *)
(* the first call after that.                                              *)

TicksPerSecond == 3   \* resolution of the clock
MaxTime        == 6   \* last tick of a run

TtlBiorreactores == 1   \* @st.cache_data(ttl=1) of get_biorreactores
TtlMapDf         == 1   \* @st.cache_data(ttl=1) of get_map_df

\* the entry stored at tick at still answers at tick now
Fresh(at, now, ttl) == now - at < ttl * TicksPerSecond

Tick ==
    /\ clock.now < MaxTime
    /\ clock' = [clock EXCEPT !.now = @ + 1]
    /\ UNCHANGED <<appVars, routeVars, mapVars, calls, detVars, bimVars, other>>

\* A call of get_biorreactores(): the entry when it is fresh, a query of
\* the store otherwise; the frame q() returns for a failed query is stored
\* like any other.
CallGetBiorreactores ==
    /\ IF catalog.status = "returned"
          /\ Fresh(clock.catalog_at, clock.now, TtlBiorreactores)
       THEN /\ clock' = [clock EXCEPT
                           !.served_by = "get_biorreactores",
                           !.served_age = clock.now - clock.catalog_read,
                           !.served_error = catalog.error]
            /\ UNCHANGED catalog
       ELSE \E fails \in BOOLEAN :
            /\ catalog' \in get_biorreactores(fails)
            /\ clock' = [clock EXCEPT
                           !.catalog_at = clock.now,
                           !.catalog_read = clock.now,
                           !.served_by = "get_biorreactores",
                           !.served_age = 0,
                           !.served_error = fails]
    /\ UNCHANGED <<normVars, dbVars, kpiVars, home, navVars, routeVars, mapVars,
                   calls, detVars, bimVars, other>>

\* A call of get_map_df(): the entry when it is fresh; otherwise the
\* function runs, calls get_biorreactores() (line 208) and its result is
\* stored.  An exception (a catalog without columns) stores nothing.
CallGetMapDf ==
    /\ IF mapdf.status = "returned" /\ Fresh(clock.mapdf_at, clock.now, TtlMapDf)
       THEN /\ clock' = [clock EXCEPT
                           !.served_by = "get_map_df",
                           !.served_age = clock.now - clock.mapdf_read,
                           !.served_error = FALSE]
            /\ UNCHANGED <<catalog, mapdf>>
       ELSE \E fails \in BOOLEAN :
            LET hit == /\ catalog.status = "returned"
                       /\ Fresh(clock.catalog_at, clock.now, TtlBiorreactores)
            IN  \E cat \in (IF hit THEN {catalog} ELSE get_biorreactores(fails)) :
                LET read == IF hit THEN clock.catalog_read ELSE clock.now
                    df   == get_map_df(cat)
                IN  /\ catalog' = cat
                    /\ mapdf' = IF df.status = "raised" THEN NoMapDf ELSE df
                    /\ clock' = [clock EXCEPT
                          !.catalog_at = IF hit THEN @ ELSE clock.now,
                          !.catalog_read = read,
                          !.mapdf_at = IF df.status = "raised" THEN @ ELSE clock.now,
                          !.mapdf_read = IF df.status = "raised" THEN @ ELSE read,
                          !.served_by = IF df.status = "raised" THEN "" ELSE "get_map_df",
                          !.served_age = IF df.status = "raised" THEN 0
                                         ELSE clock.now - read,
                          !.served_error = FALSE]
    /\ UNCHANGED <<normVars, dbVars, kpiVars, home, navVars, routeVars, map,
                   calls, detVars, bimVars, other>>

InitTtl ==
    /\ biorreactores \in AppTables
    /\ clientes = <<>> /\ registros = <<>> /\ diagnosticos = <<>>
    /\ fechas_BIMs = <<>>
    /\ KpiIdle /\ CatIdle /\ NormIdle /\ NavHome /\ RestIdle

NextTtl == Tick \/ CallGetBiorreactores \/ CallGetMapDf

SpecTtl == InitTtl /\ [][NextTtl]_vars

-----------------------------------------------------------------------------
(* Claims about navigation.                                                *)

\* the query parameters mirror the session state
NavMirror ==
    /\ query_params.page = PageParam(session_state.page)
    /\ (query_params.bim # NULL) <=> (session_state.page = "detail")
    /\ session_state.page = "detail" =>
          query_params.bim = session_state.selected_bim

\* C21: after any sequence of go_home, go_detail(b) and go_map calls the
\* query parameters mirror the session state: 'page' equals
\* session_state.page, 'bim' is present exactly when the page is 'detail'
\* and then equals session_state.selected_bim; go_home also resets
\* selected_bim to None.
C21_QueryMirrorsSession ==
    [][/\ NavMirror'
       /\ session_state'.page = "home" => session_state'.selected_bim = NULL]_vars

\* go_map was called on a session that holds a selected device: the page
\* is the map, the device stays selected and the URL carries no bim
C21_Witness ==
    /\ session_state.page = "map"
    /\ session_state.selected_bim # NULL
    /\ query_params = [page |-> PageParam("map"), bim |-> NULL]

\* C22: the detail content is rendered only for a selected_bim that is
\* non-empty and present in the current catalog; otherwise view_detail
\* calls go_home (page 'home', no selected device) and halts the run, and
\* the next run renders the home view.
C22_DetailOnlyForCatalogDevice ==
    [][(detail.status = "idle" /\ detail'.status # "idle") =>
          IF /\ DetailBim(session_state) # NULL
             /\ InCatalog(catalog', DetailBim(session_state))
          THEN detail'.status = "rendered"
          ELSE /\ detail'.status = "not_found"
               /\ session_state' = [page |-> "home", selected_bim |-> NULL]]_vars

\* C23: the view rendered in a run is the view named by session_state.page
\* at the end of that run: the run triggered by a click on the open-map
\* button or on a device button of the home view shows the map view
\* (resp. that device's detail view), not home.
C23_RenderedViewIsCurrentPage ==
    /\ home.status = "rendered" => session_state.page = "home"
    /\ map.status = "rendered" => session_state.page = "map"
    /\ detail.status = "rendered" => session_state.page = "detail"

\* C24: navigation state is not shared between user sessions: a navigation
\* action or a rerun in one session leaves the other session's page and
\* selected_bim unchanged; what one session can get from another is a
\* cached query result.
C24_SessionsIsolated ==
    [][\/ other' = other
       \/ /\ other'.id # other.id
          /\ other'.session_state = session_state
          /\ other'.query_params = query_params
          /\ session_state' = other.session_state
          /\ query_params' = other.query_params]_vars

\* session 1 went to the detail page of device "1"; session 2 then opened
\* the map, its catalog answered from the cache without a query
C24_Witness ==
    /\ other.id = 1
    /\ other.session_state = [page |-> "detail", selected_bim |-> Text(<<"1">>)]
    /\ session_state.page = "map" /\ session_state.selected_bim = NULL
    /\ map.status = "rendered"
    /\ \A i \in 1..Len(calls) : calls[i].req # "catalog"

\* the time-to-live, in ticks, of the loader that served the last value
ServedTtl ==
    IF clock.served_by = "get_map_df" THEN TtlMapDf * TicksPerSecond
    ELSE TtlBiorreactores * TicksPerSecond

\* C25: every value returned by a cached loader was computed from the
\* store no longer ago than that loader's time-to-live; a fallback value
\* computed during a failure is cached and served until its time-to-live
\* expires.
C25_ServedWithinTtl ==
    clock.served_by # "" => clock.served_age <= ServedTtl

-----------------------------------------------------------------------------
(* Claims about the map page.                                              *)

\* the cell holds a number: it is not null and its text has a digit
CoordHasNumber(v) ==
    v # NULL /\ \E i \in 1..Len(PyStr(v)) : IsDigit(PyStr(v)[i])

\* the rows of the attribute table with a number in both coordinates
RowsWithNumbers ==
    {i \in 1..Len(biorreactores) :
        /\ CoordHasNumber(biorreactores[i].latitud)
        /\ CoordHasNumber(biorreactores[i].longitud)}

\* C26: every row returned by get_map_df, and so every stop handed to the
\* route builder and to the directions API, has a numeric latitude and a
\* numeric longitude; the catalog rows whose latitude or longitude is null
\* or holds no number are dropped, and when none remain the map view shows
\* an informational message and returns without error.
C26_MapRowsHaveCoordinates ==
    /\ mapdf.status = "returned" =>
          /\ \A i \in 1..Len(mapdf.rows) :
                ~mapdf.rows[i].latitud.none /\ ~mapdf.rows[i].longitud.none
          /\ Len(mapdf.rows) = Cardinality(RowsWithNumbers)
    /\ \A k \in 1..Len(map.route) :
          \E i \in RowsWithNumbers :
             /\ biorreactores[i].numero_bim = map.route[k].numero_bim
             /\ Deg(to_float_coord(biorreactores[i].latitud)) = map.route[k].latitud
             /\ Deg(to_float_coord(biorreactores[i].longitud)) = map.route[k].longitud
    /\ (map.status # "idle" /\ "catalog" \notin map.errors
        /\ RowsWithNumbers = {}) =>
          /\ map.status = "rendered"
          /\ map.info \in {"no_clients", "no_coords"}
          /\ map.layers = <<>>

\* of two devices one has no latitude: get_map_df returned the other one
\* and the map was drawn
C26_Witness ==
    /\ Len(biorreactores) = 2
    /\ \E i \in 1..2 : biorreactores[i].latitud = NULL
    /\ mapdf.status = "returned" /\ Len(mapdf.rows) = 1
    /\ map.status = "rendered" /\ map.layers # <<>>

\* the directions requests of the run
OrsCalls == {i \in 1..Len(calls) : calls[i].req = "ors"}

\* C27: view_map calls the directions API at most once per run, and only
\* in a run where the route button was pressed and at least two distinct
\* stops are selected; with fewer than two stops no route order is
\* computed, no request is sent and the map has no path layer.
C27_RouteRequestOnlyForTwoStops ==
    /\ Cardinality(OrsCalls) <= 1
    /\ (OrsCalls # {} \/ map.route # <<>>) =>
          /\ map.status = "rendered"
          /\ Len(map.route) >= 2
          /\ \A i, j \in 1..Len(map.route) :
                i # j => map.route[i] # map.route[j]
    /\ map.info = "few_stops" =>
          /\ OrsCalls = {} /\ map.route = <<>>
          /\ map.layers = <<"IconLayer", "TextLayer">>
          /\ map.triple = NoneRoute

\* the button was pressed with one device selected twice over (two equal
\* rows): a single stop, the message, no request
C27_Witness ==
    /\ map.info = "few_stops"
    /\ Len(mapdf.rows) = 2 /\ mapdf.rows[1] = mapdf.rows[2]
    /\ OrsCalls = {}

\* frame p holds every position of S once, latest timestamp first
ExactlyLatestFirst(p, t, S) ==
    /\ {p[k] : k \in 1..Len(p)} = S
    /\ Len(p) = Cardinality(S)
    /\ \A k \in 1..(Len(p) - 1) : t[p[k]].fecha >= t[p[k + 1]].fecha

-----------------------------------------------------------------------------
(* app_bim_dashboard: the alert rules of the overview tab. A reading is    *)
(* NULL or a number held in tenths of its unit: 65 is pH 6.5.              *)

\* the limits of the rules, in tenths
PhMin   == 65
PhMax   == 95
TempMin == 100
TempMax == 350
O2Min   == 30
LuxMin  == 2000
TurbMin == 50
TurbMax == 950

\* how far below and above each limit the readings of the runs go, in tenths
Margin == 1

\* pd.notna(v)
NotNa(v) == v.kind # "null"

\* an entry of the list alerts: the text of the rule and the reading in it
Alert(rule, v) == [rule |-> rule, value |-> v.n]

compute_alerts_Inclusive(row) ==
    (IF NotNa(row.ph) /\ (row.ph.n <= PhMin \/ row.ph.n > PhMax)
     THEN <<Alert("pH fuera de rango", row.ph)>> ELSE <<>>)
    \o (IF NotNa(row.temperatura_c)
           /\ (row.temperatura_c.n < TempMin \/ row.temperatura_c.n > TempMax)
        THEN <<Alert("Temperatura atipica", row.temperatura_c)>> ELSE <<>>)
    \o (IF NotNa(row.oxigeno_mg_l) /\ row.oxigeno_mg_l.n < O2Min
        THEN <<Alert("O2 bajo", row.oxigeno_mg_l)>> ELSE <<>>)
    \o (IF NotNa(row.lux) /\ row.lux.n < LuxMin
        THEN <<Alert("Lux bajo", row.lux)>> ELSE <<>>)
    \o (IF NotNa(row.turbidez_porcentaje)
           /\ (row.turbidez_porcentaje.n < TurbMin
               \/ row.turbidez_porcentaje.n > TurbMax)
        THEN <<Alert("Turbidez anomala", row.turbidez_porcentaje)>> ELSE <<>>)

\* compute_alerts(row): the list alerts after the five if statements
compute_alerts(row) ==
    (IF NotNa(row.ph) /\ (row.ph.n < PhMin \/ row.ph.n > PhMax)
     THEN <<Alert("pH fuera de rango", row.ph)>> ELSE <<>>)
    \o (IF NotNa(row.temperatura_c)
           /\ (row.temperatura_c.n < TempMin \/ row.temperatura_c.n > TempMax)
        THEN <<Alert("Temperatura atipica", row.temperatura_c)>> ELSE <<>>)
    \o (IF NotNa(row.oxigeno_mg_l) /\ row.oxigeno_mg_l.n < O2Min
        THEN <<Alert("O2 bajo", row.oxigeno_mg_l)>> ELSE <<>>)
    \o (IF NotNa(row.lux) /\ row.lux.n < LuxMin
        THEN <<Alert("Lux bajo", row.lux)>> ELSE <<>>)
    \o (IF NotNa(row.turbidez_porcentaje)
           /\ (row.turbidez_porcentaje.n < TurbMin
               \/ row.turbidez_porcentaje.n > TurbMax)
        THEN <<Alert("Turbidez anomala", row.turbidez_porcentaje)>> ELSE <<>>)

\* the readings of a column: NULL and the numbers around the limits
ReadingVals(limits) ==
    {NULL} \cup {Num(l + d) : l \in limits, d \in (0 - Margin)..Margin}

\* the last rows of a device the runs take
LastRowVals ==
    [ph : ReadingVals({PhMin, PhMax}),
     temperatura_c : ReadingVals({TempMin, TempMax}),
     oxigeno_mg_l : ReadingVals({O2Min}),
     lux : ReadingVals({LuxMin}),
     turbidez_porcentaje : ReadingVals({TurbMin, TurbMax})]

\* no table, no cache entry, no page of app.py
AppIdle ==
    /\ clientes = <<>> /\ biorreactores = <<>> /\ registros = <<>>
    /\ diagnosticos = <<>> /\ fechas_BIMs = <<>>
    /\ NormIdle /\ KpiIdle /\ CatIdle /\ NavHome
    /\ RouteIdle /\ MapIdle /\ calls = <<>> /\ DetIdle /\ other = NoOther
    /\ clock = NoClock

\* tab T1 with a device that has a last row: alerts = compute_alerts(r)
OverviewTab ==
    /\ overview.status = "row"
    /\ overview' = [overview EXCEPT !.status = "done",
                                    !.alerts = compute_alerts(overview.row)]
    /\ UNCHANGED <<mongo, bim_page, series, other, clock, appVars, routeVars,
                   mapVars, calls, detVars>>

InitAlerts ==
    /\ overview \in [status : {"row"}, row : LastRowVals, alerts : {<<>>}]
    /\ mongo = NoMongo /\ bim_page = NoBimPage /\ series = NoSeries
    /\ AppIdle

NextAlerts == OverviewTab

SpecAlerts == InitAlerts /\ [][NextAlerts]_vars

-----------------------------------------------------------------------------
(* Claims about the alert rules.                                           *)

\* the rules in the order of the list, with the columns they read
AlertRules == <<"ph", "temperatura_c", "oxigeno_mg_l", "lux",
                "turbidez_porcentaje">>

\* the reading v of column c is outside the range stated for it:
\* pH 6.5 to 9.5, temperature 10 to 35, O2 from 3, lux from 200,
\* turbidity 5 to 95, limits included in the range
OutOfRange(c, v) ==
    CASE c = "ph" -> v < 65 \/ v > 95
      [] c = "temperatura_c" -> v < 100 \/ v > 350
      [] c = "oxigeno_mg_l" -> v < 30
      [] c = "lux" -> v < 2000
      [] c = "turbidez_porcentaje" -> v < 50 \/ v > 950

\* the rules a row violates, as positions of AlertRules
ViolatedIn(row) ==
    {i \in 1..Len(AlertRules) :
        row[AlertRules[i]].kind = "num"
        /\ OutOfRange(AlertRules[i], row[AlertRules[i]].n)}

\* the text of the alert of each rule
AlertText == <<"pH fuera de rango", "Temperatura atipica", "O2 bajo",
               "Lux bajo", "Turbidez anomala">>

\* C29: compute_alerts returns one alert for each rule the reading
\* violates, in the order pH, temperature, O2, lux, turbidity: pH below 6.5
\* or above 9.5, temperature below 10 or above 35, O2 below 3, lux below
\* 200, turbidity below 5 or above 95. A reading on a limit and a null
\* reading raise no alert, and the list is empty exactly when every
\* reading that is not null is within its range.
C29_OneAlertPerViolatedRule ==
    overview.status = "done" =>
       LET v == ViolatedIn(overview.row)
           a == overview.alerts
           pos(k) == CHOOSE i \in 1..Len(AlertRules) : AlertText[i] = a[k].rule
       IN  /\ Len(a) = Cardinality(v)
           /\ \A k \in 1..Len(a) : \E i \in v : AlertText[i] = a[k].rule
           /\ \A k \in 1..Len(a) :
                 a[k].value = overview.row[AlertRules[pos(k)]].n
           /\ \A j, k \in 1..Len(a) : j < k => pos(j) < pos(k)
           /\ (a = <<>>) = (v = {})

\* pH on its lower limit and no temperature raise nothing, while O2, lux
\* and turbidity outside their ranges raise three alerts in that order
C29_Witness ==
    /\ overview.status = "done"
    /\ overview.row.ph = Num(65)
    /\ overview.row.temperatura_c = NULL
    /\ overview.row.oxigeno_mg_l = Num(29)
    /\ overview.row.lux = Num(1999)
    /\ overview.row.turbidez_porcentaje = Num(951)
    /\ Len(overview.alerts) = 3
    /\ overview.alerts[1].rule = "O2 bajo"
    /\ overview.alerts[3].rule = "Turbidez anomala"

-----------------------------------------------------------------------------
(* app_bim_dashboard: load_timeseries. A frame is the sequence of the      *)
(* fecha values of its rows; the other columns play no part in the steps.  *)

\* the number of rows above which load_timeseries thins the frame out
DownsampleLimit == 2000

\* the row counts of the runs: up to MaxOver rows below and above each
\* multiple of the limit up to MaxFold times the limit
MaxFold == 2
MaxOver == 25

\* the most rows of the query that repeat the fecha of the first row
MaxDup == 1

\* the result of the query: n different fecha values, the first one on
\* d more rows, in the order of ORDER BY fecha
TimeseriesQuery(n, d) ==
    [i \in 1..(n + d) |-> IF i <= d + 1 THEN 1 ELSE i - d]

\* df.drop_duplicates(subset=["fecha"]): the first row of each fecha. The
\* rows arrive ordered by fecha, so an earlier row with the same fecha is
\* the row before.
DropDuplicatesFecha(df) ==
    LET numbered == [i \in 1..Len(df) |-> <<i, df[i]>>]
        kept == SelectSeq(numbered,
                          LAMBDA r : r[1] = 1 \/ df[r[1] - 1] # r[2])
    IN  [j \in 1..Len(kept) |-> kept[j][2]]

\* df.sort_values("fecha")
SortValuesFecha(df) == SortSeq(df, LAMBDA a, b : a < b)

\* df.iloc[::step, :]: the rows at the positions 0, step, 2*step, ...
ILocStep(df, step) ==
    [j \in 1..((Len(df) + step - 1) \div step) |-> df[1 + (j - 1) * step]]

\* max(1, len(df)//2000)
DownsampleStep(n) == IF n \div DownsampleLimit > 1 THEN n \div DownsampleLimit ELSE 1

\* the statements of load_timeseries after the query
load_timeseries(df) ==
    IF df = <<>> THEN df
    ELSE LET clean == SortValuesFecha(DropDuplicatesFecha(df))
         IN  IF Len(clean) > DownsampleLimit
             THEN ILocStep(clean, DownsampleStep(Len(clean)))
             ELSE clean

RowCounts ==
    {c \in {m * DownsampleLimit + o :
                m \in 0..MaxFold, o \in (0 - MaxOver)..MaxOver} : c >= 0}

\* tab T2: df_ts = load_timeseries(bim_id, days)
SeriesTab ==
    /\ series.status = "query"
    /\ series' = [series EXCEPT !.status = "done",
                                !.rows = load_timeseries(series.rows)]
    /\ UNCHANGED <<mongo, bim_page, overview, other, clock, appVars, routeVars,
                   mapVars, calls, detVars>>

InitSeries ==
    /\ \E n \in RowCounts, d \in 0..MaxDup :
          /\ n = 0 => d = 0
          /\ series = [status |-> "query", n |-> n,
                       rows |-> TimeseriesQuery(n, d)]
    /\ mongo = NoMongo /\ bim_page = NoBimPage /\ overview = NoOverview
    /\ AppIdle

NextSeries == SeriesTab

SpecSeries == InitSeries /\ [][NextSeries]_vars

-----------------------------------------------------------------------------
(* Claims about the time series.                                           *)

\* C30: load_timeseries returns at most 2000 rows: with n rows of
\* different timestamps in the range, for n > 2000 it keeps every
\* (n div 2000)-th row starting from the first and that leaves no more
\* than 2000 rows, and for n <= 2000 it returns all rows in ascending
\* order of the timestamp.
C30_AtMost2000Rows ==
    series.status = "done" =>
       /\ Len(series.rows) <= 2000
       /\ series.n > 2000 =>
             /\ \A j \in 1..Len(series.rows) :
                   series.rows[j] = 1 + (j - 1) * (series.n \div 2000)
             /\ Len(series.rows) * (series.n \div 2000) >= series.n
       /\ series.n <= 2000 =>
             series.rows = [j \in 1..series.n |-> j]

\* what the steps do give: every (n div 2000)-th row from the first for
\* n > 2000, all rows in ascending order otherwise, and fewer than twice
\* 2000 rows
C30_FewerThanTwiceTheLimit ==
    series.status = "done" =>
       /\ Len(series.rows) < 2 * 2000
       /\ series.n > 2000 =>
             /\ \A j \in 1..Len(series.rows) :
                   series.rows[j] = 1 + (j - 1) * (series.n \div 2000)
             /\ Len(series.rows) * (series.n \div 2000) >= series.n
       /\ series.n <= 2000 =>
             series.rows = [j \in 1..series.n |-> j]

\* 2001 rows of different timestamps are all returned
C30_Over2000Returned ==
    /\ series.status = "done"
    /\ series.n = 2001
    /\ Len(series.rows) = 2001


=============================================================================
